---- MODULE Spec2Model ----
(***************************************************************************)
(* Model of the rhythm game host of src/main.py: the scene stack of Game,  *)
(* the menu scenes, PauseScene and the judgment logic of GameplayScene.    *)
(*                                                                         *)
(* Units.  Simulation time is in whole milliseconds: Game.run derives dt   *)
(* from the integer clock.tick() value, and for the tick lengths of DtSet  *)
(* (dt_ms / 1000.0) * 1000.0 is exactly dt_ms in double arithmetic.        *)
(* Health is in units of 1/100000 (HealthMax is the code's 1.0), so that   *)
(* every health change of the code is a whole number of units.             *)
(***************************************************************************)
EXTENDS Integers, Sequences, FiniteSets, TLC

VARIABLES
    scenes,      \* Game.scenes: the scene stack, bottom first; the state of each scene object is stored in place
    settings,    \* Game.settings
    music,       \* pygame.mixer.music as driven by the scenes: "idle", "playing" or "paused"
    host,        \* Game.run: "running", "quit" (loop left) or "crashed" (exception left the loop)
    quit_posted, \* a pygame.QUIT event posted by the Quit button: "no", "posted" (this frame), "due" (next poll)
    songs,       \* the charts of the installed mods, in list_songs() order; song id = index
    disk,        \* the chart file of the song played from a mod or given to --editor, as json.load returns it
    editor,      \* the EditorApp started by --editor, NoEditor when the game itself runs
    last         \* history: what the last handler call did (a judged press, an update and its sweep, or nothing of note)

vars == <<scenes, settings, music, host, quit_posted, songs, disk, editor, last>>

----------------------------------------------------------------------------
(* Bounds of the exploration *)

\* ghost-tap penalties counted in one session before further penalised presses are cut off
MaxMisses == 3
\* combo value at which further hits are cut off (combo survives on_enter, so pausing lets it grow without end)
MaxCombo == 3
\* simulation time beyond which a session that cannot finish is no longer ticked
MaxTime == 6000
\* stack depth beyond which no further scene is pushed when the stack operations are driven directly
MaxDepth == 3
\* number of notes of a chart beyond which the editor adds no further note
MaxNotes == 3

\* tick lengths in ms handed to update() by Game.run (clock.tick is not clamped):
\* short and long frames for the judgment of one session, one frame length for the host as a whole
DtSet == {40, 1000}
HostDtSet == {1000}
HealthDtSet == {200, 1000}

----------------------------------------------------------------------------
(* Program constants *)

\* note["time"] = -1e9 marks a consumed note
Consumed == -1000000000
\* health 1.0
HealthMax == 100000
\* self.health = 0.5
HealthStart == 50000
\* 0.03 per hit
HitHeal == 3000
\* 0.06 per missed note
MissPenalty == 6000
\* 0.05 per penalised ghost tap
GhostPenalty == 5000
\* 0.03 per opponent note
OpponentPenalty == 3000
\* 0.05 per Ctrl+click
ClickStep == 5000
\* 0.004 * 60 per second = 0.00024 per ms
HoldHealPerMs == 24
\* 0.01 * 60 per second = 0.0006 per ms
HoldDrainPerMs == 60
\* self.time_ms > 5000
GraceMs == 5000

Min(a, b) == IF a < b THEN a ELSE b
Max(a, b) == IF a > b THEN a ELSE b
Abs(a) == IF a < 0 THEN 0 - a ELSE a

\* LANE_KEYS: lane index (0-based) of the keys A, S, W, D
LANE_KEYS == 0 .. 3

Difficulties == <<"easy", "normal", "hard">>

----------------------------------------------------------------------------
(* Charts, as load_chart returns them *)

Note(t, l, s) == [time |-> t, lane |-> l, sustain |-> s]

EmptyChart == [lanes |-> 4, notes |-> <<>>]
\* two notes of lane 0 that share part of their hit windows, then a sustain note
TieChart == [lanes |-> 4, notes |-> <<Note(1000, 0, 0), Note(1080, 0, 0)>>]
SustainChart == [lanes |-> 4, notes |-> <<Note(200, 1, 80)>>]
\* a note the simple parser lets through with a negative lane
StrayLaneChart == [lanes |-> 4, notes |-> <<Note(200, -1, 0), Note(240, 2, 0)>>]

\* the sustain of the tutorial chart (400 ms)
LongSustainChart == [lanes |-> 4, notes |-> <<Note(200, 1, 400)>>]
\* a note that is due after the 5000 ms mark
LateChart == [lanes |-> 4, notes |-> <<Note(5000, 3, 0)>>]
OneNoteChart == [lanes |-> 4, notes |-> <<Note(1000, 0, 0)>>]
\* two notes of different lanes that share part of their hit windows
TwoLaneChart == [lanes |-> 4, notes |-> <<Note(1000, 0, 0), Note(1040, 1, 0)>>]

\* the mod directories the host is started with
Libraries == { <<EmptyChart, OneNoteChart>>, <<OneNoteChart, EmptyChart>> }
\* the charts a single session is played on
PlayCharts == {EmptyChart, TieChart, SustainChart, StrayLaneChart, LateChart, TwoLaneChart}

load_chart(song_id) == songs[song_id]

list_songs == [i \in 1 .. Len(songs) |-> i]

----------------------------------------------------------------------------
(* GameplayScene *)

ZeroLanes == [l \in LANE_KEYS |-> 0]

\* GameplayScene.__init__; judged, finishes and played are history fields:
\* judged[i] counts the judgments (hit or miss) of note i since the last on_enter,
\* finishes counts how often this scene object ran its finish branch,
\* played tells that this scene object has called audio.play_song
GameplayScene(song_id, on_finish, difficulty) ==
    [kind |-> "Gameplay", song_id |-> song_id, on_finish |-> on_finish,
     difficulty |-> difficulty, chart |-> EmptyChart, time_ms |-> 0, hits |-> 0,
     misses |-> 0, combo |-> 0, hit_window |-> 120, scroll_speed |-> 10000,
     play_started |-> FALSE,
     health |-> HealthStart, sustain_end |-> ZeroLanes, sustain_start |-> ZeroLanes,
     hp_multiplier |-> 1, opponent_notes |-> <<>>, judged |-> <<>>, finishes |-> 0,
     played |-> FALSE]

\* variant: the hard window is as wide as the normal one
HitWindowOf_HardAsNormal(difficulty) ==
    IF difficulty = "easy" THEN 160
    ELSE 120

HitWindowOf(difficulty) ==
    IF difficulty = "easy" THEN 160
    ELSE IF difficulty = "hard" THEN 90
    ELSE 120

\* base_speed = 0.45 + bpm / 300, in units of 1/10000
BaseSpeed(chart) == 4500 + ((IF "bpm" \in DOMAIN chart THEN chart.bpm ELSE 120) * 10000) \div 300

\* self.scroll_speed of on_enter: base_speed times 0.9 (easy), 1.1 (hard) or 1
ScrollSpeedOf(difficulty, chart) ==
    IF difficulty = "easy" THEN (BaseSpeed(chart) * 9) \div 10
    ELSE IF difficulty = "hard" THEN (BaseSpeed(chart) * 11) \div 10
    ELSE BaseSpeed(chart)

OpponentNotes(chart) ==
    [i \in 1 .. Len(chart.notes) |->
        Note(chart.notes[i].time, (chart.notes[i].lane + 2) % chart.lanes, chart.notes[i].sustain)]

\* GameplayScene.on_enter: reloads the chart and resets the session; combo is not touched
GameplayOnEnter(g) ==
    LET chart == load_chart(g.song_id) IN
    [g EXCEPT !.chart = chart, !.time_ms = 0, !.hits = 0, !.misses = 0,
              !.play_started = FALSE, !.hit_window = HitWindowOf(g.difficulty),
              !.scroll_speed = ScrollSpeedOf(g.difficulty, chart),
              !.health = HealthStart, !.sustain_end = ZeroLanes,
              !.sustain_start = ZeroLanes, !.hp_multiplier = 1,
              !.opponent_notes = OpponentNotes(chart),
              !.judged = [i \in 1 .. Len(chart.notes) |-> 0]]

\* variant: the window test excludes its bounds
FirstInWindow_Strict(g, lane_index) ==
    LET cand == {i \in 1 .. Len(g.chart.notes) :
                    /\ g.chart.notes[i].lane = lane_index
                    /\ Abs(g.chart.notes[i].time - g.time_ms) < g.hit_window}
    IN IF cand = {} THEN 0 ELSE CHOOSE i \in cand : \A j \in cand : i <= j

\* variant: the note nearest in time to the press is taken
FirstInWindow_Nearest(g, lane_index) ==
    LET cand == {i \in 1 .. Len(g.chart.notes) :
                    /\ g.chart.notes[i].lane = lane_index
                    /\ Abs(g.chart.notes[i].time - g.time_ms) <= g.hit_window}
        near == {i \in cand : \A j \in cand :
                    Abs(g.chart.notes[i].time - g.time_ms) <= Abs(g.chart.notes[j].time - g.time_ms)}
    IN IF cand = {} THEN 0 ELSE CHOOSE i \in near : \A j \in near : i <= j

\* the loop of _attempt_hit: index of the first note of the lane inside the window, 0 if none
FirstInWindow(g, lane_index) ==
    LET cand == {i \in 1 .. Len(g.chart.notes) :
                    /\ g.chart.notes[i].lane = lane_index
                    /\ Abs(g.chart.notes[i].time - g.time_ms) <= g.hit_window}
    IN IF cand = {} THEN 0 ELSE CHOOSE i \in cand : \A j \in cand : i <= j

\* variant: the hit note keeps its time, so it is not marked consumed
AttemptHit_NoMark(g, lane_index) ==
    LET i == FirstInWindow(g, lane_index) IN
    IF i = 0 THEN g
    ELSE LET note == g.chart.notes[i] IN
         [g EXCEPT !.hits = g.hits + 1,
                   !.health = Min(HealthMax, g.health + HitHeal * g.hp_multiplier),
                   !.combo = g.combo + 1,
                   !.judged[i] = g.judged[i] + 1,
                   !.sustain_start[lane_index] =
                        IF note.sustain > 0 THEN g.time_ms ELSE g.sustain_start[lane_index],
                   !.sustain_end[lane_index] =
                        IF note.sustain > 0 THEN g.time_ms + note.sustain ELSE g.sustain_end[lane_index]]

\* variant: a hit takes every note of the lane that has the time of the note found
AttemptHit_WholeStack(g, lane_index) ==
    LET i == FirstInWindow(g, lane_index) IN
    IF i = 0 THEN g
    ELSE LET note == g.chart.notes[i] IN
         [g EXCEPT !.chart.notes = [k \in 1 .. Len(g.chart.notes) |->
                        IF g.chart.notes[k].lane = lane_index /\ g.chart.notes[k].time = note.time
                        THEN [g.chart.notes[k] EXCEPT !.time = Consumed]
                        ELSE g.chart.notes[k]],
                   !.hits = g.hits + 1,
                   !.health = Min(HealthMax, g.health + HitHeal * g.hp_multiplier),
                   !.combo = g.combo + 1,
                   !.judged[i] = g.judged[i] + 1,
                   !.sustain_start[lane_index] =
                        IF note.sustain > 0 THEN g.time_ms ELSE g.sustain_start[lane_index],
                   !.sustain_end[lane_index] =
                        IF note.sustain > 0 THEN g.time_ms + note.sustain ELSE g.sustain_end[lane_index]]

\* variant: the sustain runs from the time of the note, not from the time of the hit
AttemptHit_SustainFromNote(g, lane_index) ==
    LET i == FirstInWindow(g, lane_index) IN
    IF i = 0 THEN g
    ELSE LET note == g.chart.notes[i] IN
         [g EXCEPT !.chart.notes[i].time = Consumed,
                   !.hits = g.hits + 1,
                   !.health = Min(HealthMax, g.health + HitHeal * g.hp_multiplier),
                   !.combo = g.combo + 1,
                   !.judged[i] = g.judged[i] + 1,
                   !.sustain_start[lane_index] =
                        IF note.sustain > 0 THEN note.time ELSE g.sustain_start[lane_index],
                   !.sustain_end[lane_index] =
                        IF note.sustain > 0 THEN note.time + note.sustain ELSE g.sustain_end[lane_index]]

\* GameplayScene._attempt_hit: the scene after the call; the call returned True iff the result differs from g
AttemptHit(g, lane_index) ==
    LET i == FirstInWindow(g, lane_index) IN
    IF i = 0 THEN g
    ELSE LET note == g.chart.notes[i] IN
         [g EXCEPT !.chart.notes[i].time = Consumed,
                   !.hits = g.hits + 1,
                   !.health = Min(HealthMax, g.health + HitHeal * g.hp_multiplier),
                   !.combo = g.combo + 1,
                   !.judged[i] = g.judged[i] + 1,
                   !.sustain_start[lane_index] =
                        IF note.sustain > 0 THEN g.time_ms ELSE g.sustain_start[lane_index],
                   !.sustain_end[lane_index] =
                        IF note.sustain > 0 THEN g.time_ms + note.sustain ELSE g.sustain_end[lane_index]]

\* variant: the ghost-tap test is the wrong way round, so an empty press is penalised when ghost tapping is allowed
LaneKeyDown_PenaltyInverted(g, lane_index, ghost_tap) ==
    LET h == AttemptHit(g, lane_index) IN
    IF FirstInWindow(g, lane_index) = 0 /\ ghost_tap
    THEN [g EXCEPT !.misses = g.misses + 1,
                   !.health = Max(0, g.health - GhostPenalty * g.hp_multiplier)]
    ELSE h

\* variant: a press that hits nothing is penalised whatever the ghost-tap setting
LaneKeyDown_AlwaysPenalised(g, lane_index, ghost_tap) ==
    LET h == AttemptHit(g, lane_index) IN
    IF FirstInWindow(g, lane_index) = 0
    THEN [g EXCEPT !.misses = g.misses + 1,
                   !.health = Max(0, g.health - GhostPenalty * g.hp_multiplier)]
    ELSE h

\* the KEYDOWN branch of GameplayScene.handle_event for the key of lane_index
LaneKeyDown(g, lane_index, ghost_tap) ==
    LET h == AttemptHit(g, lane_index) IN
    IF FirstInWindow(g, lane_index) = 0 /\ ~ghost_tap
    THEN [g EXCEPT !.misses = g.misses + 1,
                   !.health = Max(0, g.health - GhostPenalty * g.hp_multiplier)]
    ELSE h

\* variant: the Ctrl+click adjustment without min / max
CtrlClick_NoClamp(g, button) ==
    IF button = 1 THEN [g EXCEPT !.health = g.health + ClickStep * g.hp_multiplier]
    ELSE IF button = 3 THEN [g EXCEPT !.health = g.health - ClickStep * g.hp_multiplier]
    ELSE g

\* the Ctrl+click branch of GameplayScene.handle_event: button 1 heals, button 3 hurts
CtrlClick(g, button) ==
    IF button = 1 THEN [g EXCEPT !.health = Min(HealthMax, g.health + ClickStep * g.hp_multiplier)]
    ELSE IF button = 3 THEN [g EXCEPT !.health = Max(0, g.health - ClickStep * g.hp_multiplier)]
    ELSE g

\* the miss sweep of update, notes i .. end in list order
RECURSIVE MissSweep(_, _)
MissSweep(g, i) ==
    IF i > Len(g.chart.notes) THEN g
    ELSE LET note == g.chart.notes[i] IN
         IF 0 <= note.time /\ note.time < g.time_ms - g.hit_window /\ note.lane >= 0
         THEN MissSweep([g EXCEPT !.chart.notes[i].time = Consumed,
                                  !.misses = g.misses + 1,
                                  !.health = Max(0, g.health - MissPenalty * g.hp_multiplier),
                                  !.combo = 0,
                                  !.judged[i] = g.judged[i] + 1], i + 1)
         ELSE MissSweep(g, i + 1)

\* the opponent loop of update
RECURSIVE OpponentSweep(_, _)
OpponentSweep(g, i) ==
    IF i > Len(g.opponent_notes) THEN g
    ELSE LET t == g.opponent_notes[i].time IN
         IF t >= 0 /\ Abs(t - g.time_ms) <= g.hit_window
         THEN OpponentSweep([g EXCEPT !.opponent_notes[i].time = Consumed,
                                      !.health = Max(0, g.health - OpponentPenalty * g.hp_multiplier)], i + 1)
         ELSE OpponentSweep(g, i + 1)

\* the sustain loop of update over lanes lane_index .. 3; held is the set of lanes whose key is down
RECURSIVE SustainCheck(_, _, _, _)
SustainCheck(g, lane_index, dt, held) ==
    IF lane_index > 3 THEN g
    ELSE LET end_time == g.sustain_end[lane_index] IN
         IF end_time > g.time_ms
         THEN IF lane_index \in held
              THEN SustainCheck([g EXCEPT !.health =
                        Min(HealthMax, g.health + HoldHealPerMs * g.hp_multiplier * dt)],
                        lane_index + 1, dt, held)
              ELSE SustainCheck([g EXCEPT !.health =
                        Max(0, g.health - HoldDrainPerMs * g.hp_multiplier * dt)],
                        lane_index + 1, dt, held)
         ELSE IF end_time > 0
              THEN SustainCheck([g EXCEPT !.sustain_end[lane_index] = 0,
                                          !.sustain_start[lane_index] = 0],
                                lane_index + 1, dt, held)
              ELSE SustainCheck(g, lane_index + 1, dt, held)

\* variant of the sustain loop: a sustain whose key is up costs nothing
RECURSIVE SustainCheck_NoDrain(_, _, _, _)
SustainCheck_NoDrain(g, lane_index, dt, held) ==
    IF lane_index > 3 THEN g
    ELSE LET end_time == g.sustain_end[lane_index] IN
         IF end_time > g.time_ms
         THEN IF lane_index \in held
              THEN SustainCheck_NoDrain([g EXCEPT !.health =
                        Min(HealthMax, g.health + HoldHealPerMs * g.hp_multiplier * dt)],
                        lane_index + 1, dt, held)
              ELSE SustainCheck_NoDrain(g, lane_index + 1, dt, held)
         ELSE IF end_time > 0
              THEN SustainCheck_NoDrain([g EXCEPT !.sustain_end[lane_index] = 0,
                                                  !.sustain_start[lane_index] = 0],
                                        lane_index + 1, dt, held)
              ELSE SustainCheck_NoDrain(g, lane_index + 1, dt, held)

AllConsumed(g) == \A i \in 1 .. Len(g.chart.notes) : g.chart.notes[i].time < 0

\* variant: update with the sustain loop that does not drain
Advance_NoDrain(g, dt, held, hp_loss_mult) ==
    LET g1 == [g EXCEPT !.play_started = TRUE, !.played = TRUE, !.time_ms = g.time_ms + dt,
                        !.hp_multiplier = hp_loss_mult]
    IN SustainCheck_NoDrain(OpponentSweep(MissSweep(g1, 1), 1), 0, dt, held)

\* update up to the finish test: _ensure_music, clock, multiplier, sweeps, sustain
Advance(g, dt, held, hp_loss_mult) ==
    LET g1 == [g EXCEPT !.play_started = TRUE, !.played = TRUE, !.time_ms = g.time_ms + dt,
                        !.hp_multiplier = hp_loss_mult]
    IN SustainCheck(OpponentSweep(MissSweep(g1, 1), 1), 0, dt, held)

\* variant: the grace test is >= instead of >
Finishes_Inclusive(g) == AllConsumed(g) /\ g.time_ms >= GraceMs

\* variant: the grace test alone, pending notes or not
Finishes_Early(g) == g.time_ms > GraceMs

\* the finish test at the end of update
Finishes(g) == AllConsumed(g) /\ g.time_ms > GraceMs

----------------------------------------------------------------------------
(* The other scenes *)

MainMenuScene == [kind |-> "MainMenu", selected |-> 0]
FreeplayScene == [kind |-> "Freeplay", selected |-> 0, diff_index |-> 1]
StoryScene == [kind |-> "Story", index |-> 0]
SettingsScene == [kind |-> "Settings", selected |-> 0]
ModsManagerScene == [kind |-> "Mods"]
PluginsScene == [kind |-> "Plugins"]
CreditsScene == [kind |-> "Credits"]
PauseScene == [kind |-> "Pause", selected |-> 0]

\* MainMenuScene.items, in order
MainMenuItems == <<"Freeplay", "Story Mode", "Settings", "Mods", "Plugins", "Credits", "Quit">>
\* PauseScene.items
PauseItems == <<"Resume", "Settings", "Exit to Menu">>
\* SettingsScene._ensure_options: the value list of each option
SettingsOptions ==
    << [name |-> "Volume", values |-> <<>>],
       [name |-> "Note Bar Position", values |-> <<"bottom", "middle", "top">>],
       [name |-> "Note Skin", values |-> <<"rect", "circle">>],
       [name |-> "Ghost Tapping", values |-> <<"On", "Off">>] >>

\* _load_settings without a settings file
DefaultSettings ==
    [note_bar_pos |-> "center", note_skin |-> "rect", ghost_tap |-> TRUE, hp_loss_mult |-> 1]

----------------------------------------------------------------------------
(* Game: the scene stack *)

\* scene.on_enter(game), by class
OnEnter(scene) ==
    IF scene.kind = "Gameplay" THEN GameplayOnEnter(scene)
    ELSE IF scene.kind = "Story" THEN [scene EXCEPT !.index = 0]
    ELSE scene

\* scene.on_exit(game): no class overrides Scene.on_exit
OnExit(scene) == scene

SetTop(stack, scene) == [stack EXCEPT ![Len(stack)] = scene]

push_scene(stack, scene) ==
    LET below == IF stack # <<>> THEN SetTop(stack, OnExit(stack[Len(stack)])) ELSE stack
    IN Append(below, OnEnter(scene))

\* variant: the pop enters every scene left on the stack, not only the new top
pop_scene_EnterAll(stack) ==
    LET rest == IF stack # <<>> THEN SubSeq(stack, 1, Len(stack) - 1) ELSE stack
    IN [p \in 1 .. Len(rest) |-> OnEnter(rest[p])]

pop_scene(stack) ==
    LET rest == IF stack # <<>> THEN SubSeq(stack, 1, Len(stack) - 1) ELSE stack
    IN IF rest # <<>> THEN SetTop(rest, OnEnter(rest[Len(rest)])) ELSE rest

replace_scene(stack, scene) ==
    LET rest == IF stack # <<>> THEN SubSeq(stack, 1, Len(stack) - 1) ELSE stack
    IN Append(rest, OnEnter(scene))

\* Game.current_scene
current_scene == scenes[Len(scenes)]

\* StoryScene._advance of the story scene at stack position p (the bound method given as on_finish)
StoryAdvance(stack, p) ==
    LET st == [stack EXCEPT ![p].index = stack[p].index + 1] IN
    IF st[p].index >= Len(list_songs) THEN pop_scene(st)
    ELSE push_scene(st, GameplayScene(list_songs[st[p].index + 1], p, "normal"))

----------------------------------------------------------------------------
(* The chart editor is a separate entry point of main(): a game run has none *)

\* load_json_from_mods found no file
NoFile == [found |-> FALSE]
NoEditor == [open |-> FALSE]

----------------------------------------------------------------------------
(* History values *)

NoOp == [op |-> "none"]
PressOp(lane_index, i) == [op |-> "press", lane |-> lane_index, note |-> i]
UpdateOp(g, swept, finished) ==
    [op |-> "update", song_id |-> g.song_id, time_ms |-> g.time_ms, swept |-> swept, finished |-> finished]

----------------------------------------------------------------------------
(* Game.run: one event or one update at a time, always on the top scene *)

Dispatch(kind) ==
    /\ host = "running"
    /\ quit_posted # "due"
    /\ scenes # <<>>
    /\ current_scene.kind = kind

Quiet == UNCHANGED <<songs, disk, editor>> /\ last' = NoOp

Init ==
    /\ songs \in Libraries
    /\ scenes = push_scene(<<>>, MainMenuScene)
    /\ settings = DefaultSettings
    /\ music = "idle"
    /\ host = "running"
    /\ quit_posted = "no"
    /\ disk = NoFile
    /\ editor = NoEditor
    /\ last = NoOp

\* MainMenuScene.handle_event: Up / Down
MainMenuMove(d) ==
    /\ Dispatch("MainMenu")
    /\ scenes' = SetTop(scenes, [current_scene EXCEPT !.selected = (@ + d) % Len(MainMenuItems)])
    /\ UNCHANGED <<settings, music, host, quit_posted>> /\ Quiet

\* MainMenuScene.handle_event: Return / Space runs the selected item
MainMenuActivate ==
    /\ Dispatch("MainMenu")
    /\ LET item == MainMenuItems[current_scene.selected + 1] IN
       /\ scenes' = IF item = "Freeplay" THEN push_scene(scenes, FreeplayScene)
                    ELSE IF item = "Story Mode" THEN push_scene(scenes, StoryScene)
                    ELSE IF item = "Settings" THEN push_scene(scenes, SettingsScene)
                    ELSE IF item = "Mods" THEN push_scene(scenes, ModsManagerScene)
                    ELSE IF item = "Plugins" THEN push_scene(scenes, PluginsScene)
                    ELSE IF item = "Credits" THEN push_scene(scenes, CreditsScene)
                    ELSE scenes
       /\ quit_posted' = IF item = "Quit" /\ quit_posted = "no" THEN "posted" ELSE quit_posted
    /\ UNCHANGED <<settings, music, host>> /\ Quiet

\* MainMenuScene.handle_event: Ctrl toggles the HP loss multiplier between 1x and 2x
MainMenuToggleHp ==
    /\ Dispatch("MainMenu")
    /\ settings' = [settings EXCEPT !.hp_loss_mult = IF @ < 2 THEN 2 ELSE 1]
    /\ UNCHANGED <<scenes, music, host, quit_posted>> /\ Quiet

\* variant: Escape pops MainMenuScene as it pops the other menu scenes
MenuEscape_MainMenuToo ==
    /\ host = "running" /\ quit_posted # "due" /\ scenes # <<>>
    /\ current_scene.kind \in {"MainMenu", "Freeplay", "Story", "Settings", "Mods", "Plugins", "Credits"}
    /\ scenes' = pop_scene(scenes)
    /\ UNCHANGED <<settings, music, host, quit_posted>> /\ Quiet

\* FreeplayScene / StoryScene / SettingsScene / ModsManagerScene / PluginsScene / CreditsScene: Escape
MenuEscape ==
    /\ host = "running" /\ quit_posted # "due" /\ scenes # <<>>
    /\ current_scene.kind \in {"Freeplay", "Story", "Settings", "Mods", "Plugins", "Credits"}
    /\ scenes' = pop_scene(scenes)
    /\ UNCHANGED <<settings, music, host, quit_posted>> /\ Quiet

\* FreeplayScene.handle_event: Up / Down
FreeplayMove(d) ==
    /\ Dispatch("Freeplay")
    /\ scenes' = SetTop(scenes, [current_scene EXCEPT !.selected = (@ + d) % Max(1, Len(list_songs))])
    /\ UNCHANGED <<settings, music, host, quit_posted>> /\ Quiet

\* FreeplayScene.handle_event: Left / Right
FreeplayDifficulty(d) ==
    /\ Dispatch("Freeplay")
    /\ scenes' = SetTop(scenes, [current_scene EXCEPT !.diff_index = (@ + d) % Len(Difficulties)])
    /\ UNCHANGED <<settings, music, host, quit_posted>> /\ Quiet

\* FreeplayScene.handle_event: Return / Space
FreeplayPlay ==
    /\ Dispatch("Freeplay")
    /\ Len(list_songs) > 0
    /\ scenes' = push_scene(scenes, GameplayScene(list_songs[current_scene.selected + 1], 0,
                                                  Difficulties[current_scene.diff_index + 1]))
    /\ UNCHANGED <<settings, music, host, quit_posted>> /\ Quiet

\* StoryScene.handle_event: Return / Space
StoryPlay ==
    /\ Dispatch("Story")
    /\ Len(list_songs) > 0
    /\ scenes' = push_scene(scenes, GameplayScene(list_songs[current_scene.index + 1], Len(scenes), "normal"))
    /\ UNCHANGED <<settings, music, host, quit_posted>> /\ Quiet

\* SettingsScene.handle_event: Up / Down
SettingsMove(d) ==
    /\ Dispatch("Settings")
    /\ scenes' = SetTop(scenes, [current_scene EXCEPT !.selected = (@ + d) % Len(SettingsOptions)])
    /\ UNCHANGED <<settings, music, host, quit_posted>> /\ Quiet

IndexOf(values, v) == CHOOSE i \in 1 .. Len(values) : values[i] = v

\* the setting an option shows, as SettingsScene.handle_event reads it
CurrentValue(name) ==
    IF name = "Note Bar Position" THEN settings.note_bar_pos
    ELSE IF name = "Note Skin" THEN settings.note_skin
    ELSE IF settings.ghost_tap THEN "On" ELSE "Off"

\* SettingsScene.handle_event: Left (d = -1) / Right (d = 1); values.index raises for a value not in the list
SettingsChange(d) ==
    /\ Dispatch("Settings")
    /\ LET opt == SettingsOptions[current_scene.selected + 1]
           n == Len(opt.values)
       IN IF opt.name = "Volume" THEN FALSE
          ELSE IF \A i \in 1 .. n : opt.values[i] # CurrentValue(opt.name)
          THEN host' = "crashed" /\ UNCHANGED settings
          ELSE LET idx == IndexOf(opt.values, CurrentValue(opt.name)) - 1
                   v == opt.values[((idx + d) % n) + 1]
               IN /\ settings' = IF opt.name = "Note Bar Position" THEN [settings EXCEPT !.note_bar_pos = v]
                                 ELSE IF opt.name = "Note Skin" THEN [settings EXCEPT !.note_skin = v]
                                 ELSE [settings EXCEPT !.ghost_tap = (v = "On")]
                  /\ UNCHANGED host
    /\ UNCHANGED <<scenes, music, quit_posted>> /\ Quiet

\* PauseScene._resume
Resume(stack) == pop_scene(stack)

\* PauseScene.handle_event: Escape
PauseEscape ==
    /\ Dispatch("Pause")
    /\ music' = IF music = "paused" THEN "playing" ELSE music
    /\ scenes' = Resume(scenes)
    /\ UNCHANGED <<settings, host, quit_posted>> /\ Quiet

\* PauseScene.handle_event: Up / Down
PauseMove(d) ==
    /\ Dispatch("Pause")
    /\ scenes' = SetTop(scenes, [current_scene EXCEPT !.selected = (@ + d) % Len(PauseItems)])
    /\ UNCHANGED <<settings, music, host, quit_posted>> /\ Quiet

\* PauseScene._activate, reached by Return / Space
PauseActivate ==
    /\ Dispatch("Pause")
    /\ LET choice == PauseItems[current_scene.selected + 1] IN
       IF choice = "Resume"
       THEN /\ music' = IF music = "paused" THEN "playing" ELSE music
            /\ scenes' = Resume(scenes)
       ELSE IF choice = "Settings"
       THEN /\ scenes' = push_scene(scenes, SettingsScene)
            /\ UNCHANGED music
       ELSE /\ music' = "idle"
            /\ scenes' = pop_scene(pop_scene(scenes))
    /\ UNCHANGED <<settings, host, quit_posted>> /\ Quiet

\* GameplayScene.handle_event: Escape pauses the music and pushes PauseScene
GameplayEscape ==
    /\ Dispatch("Gameplay")
    /\ music' = IF music = "playing" THEN "paused" ELSE music
    /\ scenes' = push_scene(scenes, PauseScene)
    /\ UNCHANGED <<settings, host, quit_posted>> /\ Quiet

\* GameplayScene.handle_event: KEYDOWN of the key of lane_index
GameplayLaneKey(lane_index) ==
    /\ Dispatch("Gameplay")
    /\ LET g == current_scene
           h == LaneKeyDown(g, lane_index, settings.ghost_tap)
       IN /\ h.combo <= MaxCombo
          /\ h.misses > g.misses => h.misses <= MaxMisses
          /\ scenes' = SetTop(scenes, h)
          /\ last' = PressOp(lane_index, FirstInWindow(g, lane_index))
    /\ UNCHANGED <<settings, music, host, quit_posted, songs, disk, editor>>

\* GameplayScene.handle_event: MOUSEBUTTONDOWN with Ctrl held
GameplayCtrlClick(button) ==
    /\ Dispatch("Gameplay")
    /\ scenes' = SetTop(scenes, CtrlClick(current_scene, button))
    /\ UNCHANGED <<settings, music, host, quit_posted>> /\ Quiet

\* the lanes whose sustain is still open after a tick of dt: only their keys matter to update
OpenSustains(g, dt) == {l \in LANE_KEYS : g.sustain_end[l] > g.time_ms + dt}

\* GameplayScene.update(dt) with the keys of the lanes in held down (pygame.key.get_pressed)
UpdateHeld(dt, held) ==
    /\ \E g2 \in {Advance(current_scene, dt, held, settings.hp_loss_mult)} :
       LET g == current_scene
           finished == Finishes(g2)
           stack == SetTop(scenes, IF finished THEN [g2 EXCEPT !.finishes = @ + 1] ELSE g2)
       IN /\ g2.time_ms <= MaxTime
          /\ scenes' = IF ~finished THEN stack
                       ELSE IF g.on_finish # 0 THEN StoryAdvance(stack, g.on_finish)
                       ELSE pop_scene(stack)
          /\ music' = IF finished THEN "idle" ELSE IF ~g.play_started THEN "playing" ELSE music
          /\ last' = UpdateOp(g2, g2.misses - g.misses, finished)
    /\ quit_posted' = IF quit_posted = "posted" THEN "due" ELSE quit_posted
    /\ UNCHANGED <<settings, host, songs, disk, editor>>

GameplayUpdate(dt) ==
    /\ Dispatch("Gameplay")
    /\ \E held \in SUBSET OpenSustains(current_scene, dt) : UpdateHeld(dt, held)

\* Scene.update of a menu scene does nothing; the frame ends, so a posted QUIT is next in the queue
MenuUpdate ==
    /\ host = "running" /\ scenes # <<>>
    /\ current_scene.kind # "Gameplay"
    /\ quit_posted = "posted"
    /\ quit_posted' = "due"
    /\ UNCHANGED <<scenes, settings, music, host>> /\ Quiet

\* Game.run: pygame.QUIT ends the loop
QuitEvent ==
    /\ host = "running"
    /\ quit_posted = "due"
    /\ host' = "quit"
    /\ UNCHANGED <<scenes, settings, music, quit_posted>> /\ Quiet

Next ==
    \/ \E d \in {-1, 1} : MainMenuMove(d)
    \/ MainMenuActivate
    \/ MainMenuToggleHp
    \/ MenuEscape
    \/ \E d \in {-1, 1} : FreeplayMove(d)
    \/ \E d \in {-1, 1} : FreeplayDifficulty(d)
    \/ FreeplayPlay
    \/ StoryPlay
    \/ \E d \in {-1, 1} : SettingsMove(d)
    \/ \E d \in {-1, 1} : SettingsChange(d)
    \/ PauseEscape
    \/ \E d \in {-1, 1} : PauseMove(d)
    \/ PauseActivate
    \/ GameplayEscape
    \/ \E lane_index \in LANE_KEYS : GameplayLaneKey(lane_index)
    \/ \E dt \in HostDtSet : GameplayUpdate(dt)
    \/ MenuUpdate
    \/ QuitEvent

Spec == Init /\ [][Next]_vars

----------------------------------------------------------------------------
(* One freeplay session: the player picked a song and a difficulty in        *)
(* FreeplayScene and pressed Return; settings.json holds what an earlier run *)
(* saved.  From there on only lane keys and frames arrive.                   *)

SavedSettings ==
    {[DefaultSettings EXCEPT !.ghost_tap = gt, !.hp_loss_mult = m] : gt \in BOOLEAN, m \in {1, 2}}

InitPlay ==
    /\ \E c \in PlayCharts : songs = <<c>>
    /\ \E d \in 0 .. 2 :
          scenes = push_scene(push_scene(push_scene(<<>>, MainMenuScene),
                                         [FreeplayScene EXCEPT !.diff_index = d]),
                              GameplayScene(1, 0, Difficulties[d + 1]))
    /\ settings \in SavedSettings
    /\ music = "idle"
    /\ host = "running"
    /\ quit_posted = "no"
    /\ disk = NoFile
    /\ editor = NoEditor
    /\ last = NoOp

NextPlay ==
    \/ \E lane_index \in LANE_KEYS : GameplayLaneKey(lane_index)
    \/ \E dt \in DtSet : GameplayUpdate(dt)

SpecPlay == InitPlay /\ [][NextPlay]_vars

----------------------------------------------------------------------------
(* One freeplay session on a sustain chart with every gameplay input,       *)
(* Ctrl+click included, on coarser frames                                   *)

InitHealth ==
    /\ songs = <<LongSustainChart>>
    /\ \E d \in 0 .. 2 :
          scenes = push_scene(push_scene(push_scene(<<>>, MainMenuScene),
                                         [FreeplayScene EXCEPT !.diff_index = d]),
                              GameplayScene(1, 0, Difficulties[d + 1]))
    /\ settings \in SavedSettings
    /\ music = "idle"
    /\ host = "running"
    /\ quit_posted = "no"
    /\ disk = NoFile
    /\ editor = NoEditor
    /\ last = NoOp

NextHealth ==
    \/ \E lane_index \in LANE_KEYS : GameplayLaneKey(lane_index)
    \/ \E button \in {1, 3} : GameplayCtrlClick(button)
    \/ \E dt \in HealthDtSet : GameplayUpdate(dt)

SpecHealth == InitHealth /\ [][NextHealth]_vars

----------------------------------------------------------------------------
(* Game.push_scene / pop_scene / replace_scene as any Scene may call them    *)
(* from its handlers, with the lifecycle calls they make written to a log.   *)
(* A scene object carries an oid (its identity, as id() in Python) so that   *)
(* the log can tell which object was called.                                 *)

Obj(scene, oid) == [oid |-> oid] @@ scene

\* the entry of the log for scene.on_enter(game) / scene.on_exit(game)
Call(method, scene) == [method |-> method, oid |-> scene.oid]

\* the Game with an empty log
Traced(stack) == [scenes |-> stack, calls |-> <<>>]

\* self.scenes[p].on_exit(self)
on_exit(game, p) ==
    [scenes |-> [game.scenes EXCEPT ![p] = OnExit(@)],
     calls |-> Append(game.calls, Call("on_exit", game.scenes[p]))]

\* self.scenes[p].on_enter(self)
on_enter(game, p) ==
    [scenes |-> [game.scenes EXCEPT ![p] = OnEnter(@)],
     calls |-> Append(game.calls, Call("on_enter", game.scenes[p]))]

\* variant: the pushed scene is entered before the old top is exited
Game_push_scene_EnterFirst(game, scene) ==
    LET g1 == [game EXCEPT !.scenes = Append(@, scene)]
        g2 == on_enter(g1, Len(g1.scenes))
    IN IF game.scenes # <<>> THEN on_exit(g2, Len(game.scenes)) ELSE g2

\* variant: the push covers the old top without calling its on_exit
Game_push_scene_NoExit(game, scene) ==
    LET g2 == [game EXCEPT !.scenes = Append(@, scene)]
    IN on_enter(g2, Len(g2.scenes))

\* Game.push_scene, statement by statement
Game_push_scene(game, scene) ==
    LET g1 == IF game.scenes # <<>> THEN on_exit(game, Len(game.scenes)) ELSE game
        g2 == [g1 EXCEPT !.scenes = Append(@, scene)]
    IN on_enter(g2, Len(g2.scenes))

\* variant: the scene uncovered by the pop is not entered
Game_pop_scene_NoEnter(game) ==
    IF game.scenes # <<>>
    THEN [on_exit(game, Len(game.scenes)) EXCEPT !.scenes = SubSeq(@, 1, Len(@) - 1)]
    ELSE game

\* Game.pop_scene, statement by statement
Game_pop_scene(game) ==
    LET g1 == IF game.scenes # <<>>
              THEN [on_exit(game, Len(game.scenes)) EXCEPT !.scenes = SubSeq(@, 1, Len(@) - 1)]
              ELSE game
    IN IF g1.scenes # <<>> THEN on_enter(g1, Len(g1.scenes)) ELSE g1

\* variant: replace is written as pop_scene followed by push_scene
Game_replace_scene_PopPush(game, scene) == Game_push_scene(Game_pop_scene(game), scene)

\* Game.replace_scene, statement by statement
Game_replace_scene(game, scene) ==
    LET g1 == IF game.scenes # <<>>
              THEN [on_exit(game, Len(game.scenes)) EXCEPT !.scenes = SubSeq(@, 1, Len(@) - 1)]
              ELSE game
        g2 == [g1 EXCEPT !.scenes = Append(@, scene)]
    IN on_enter(g2, Len(g2.scenes))

\* the scene objects a handler may hand to push_scene / replace_scene
StackObjects ==
    {Obj(CreditsScene, 1), Obj(SettingsScene, 2), Obj(GameplayScene(1, 0, "normal"), 3)}

Oids(stack) == [p \in 1 .. Len(stack) |-> stack[p].oid]

\* history: the stack operation of this step (its argument, the stack before it
\* and the lifecycle calls it made) and the stack operation of the step before
StackOp(name, arg, game) ==
    [op |-> "stack", name |-> name, arg |-> arg, before |-> scenes, calls |-> game.calls,
     prev |-> IF last.op = "stack" THEN [last EXCEPT !.prev = NoOp] ELSE NoOp]

\* a handler of the top scene calls game.push_scene(scene)
StackPush(scene) ==
    /\ host = "running" /\ scenes # <<>>
    /\ Len(scenes) < MaxDepth
    /\ \A p \in 1 .. Len(scenes) : scenes[p].oid # scene.oid
    /\ LET game == Game_push_scene(Traced(scenes), scene)
       IN scenes' = game.scenes /\ last' = StackOp("push", scene, game)
    /\ UNCHANGED <<settings, music, host, quit_posted, songs, disk, editor>>

\* a handler of the top scene calls game.pop_scene()
StackPop ==
    /\ host = "running" /\ scenes # <<>>
    /\ LET game == Game_pop_scene(Traced(scenes))
       IN scenes' = game.scenes /\ last' = StackOp("pop", NoOp, game)
    /\ UNCHANGED <<settings, music, host, quit_posted, songs, disk, editor>>

\* a handler of the top scene calls game.replace_scene(scene)
StackReplace(scene) ==
    /\ host = "running" /\ scenes # <<>>
    /\ \A p \in 1 .. Len(scenes) : scenes[p].oid # scene.oid
    /\ LET game == Game_replace_scene(Traced(scenes), scene)
       IN scenes' = game.scenes /\ last' = StackOp("replace", scene, game)
    /\ UNCHANGED <<settings, music, host, quit_posted, songs, disk, editor>>

\* Game.run after a handler has emptied the stack: the frame goes on with
\* self.current_scene (the next event, update or draw), and scenes[-1] raises IndexError
RunOnEmptyStack ==
    /\ host = "running" /\ scenes = <<>>
    /\ host' = "crashed"
    /\ UNCHANGED <<scenes, settings, music, quit_posted>> /\ Quiet

InitStack ==
    /\ songs = <<OneNoteChart>>
    /\ scenes = Game_push_scene(Traced(<<>>), Obj(MainMenuScene, 0)).scenes
    /\ settings = DefaultSettings
    /\ music = "idle"
    /\ host = "running"
    /\ quit_posted = "no"
    /\ disk = NoFile
    /\ editor = NoEditor
    /\ last = NoOp

NextStack ==
    \/ \E scene \in StackObjects : StackPush(scene)
    \/ StackPop
    \/ \E scene \in StackObjects : StackReplace(scene)
    \/ \E dt \in HostDtSet : GameplayUpdate(dt)
    \/ RunOnEmptyStack

SpecStack == InitStack /\ [][NextStack]_vars

----------------------------------------------------------------------------
(* Chart files.  A JSON object is a record that has the keys present in the  *)
(* file.  The numbers under "lane" and "lanes" are written in halves (3      *)
(* stands for 1.5) so that int() has something to cut off; times, sustains   *)
(* and bpm are whole numbers, which float() leaves as they are.              *)

\* dict.get(key, default)
Get(d, key, default) == IF key \in DOMAIN d THEN d[key] ELSE default

\* int(x) for the JSON number x written in halves: truncation towards zero
IntOf(halves) == IF halves >= 0 THEN halves \div 2 ELSE -((-halves) \div 2)

\* a or b, for a string (falsy when empty) and for a number (falsy when 0)
OrStr(a, b) == IF a = "" THEN b ELSE a
OrNum(a, b) == IF a = 0 THEN b ELSE a

\* variant: a note is put in front of the notes of the same time
InsertByTime_BeforeEqual(sorted, note) ==
    LET k == Cardinality({i \in 1 .. Len(sorted) : sorted[i].time < note.time})
    IN SubSeq(sorted, 1, k) \o <<note>> \o SubSeq(sorted, k + 1, Len(sorted))

\* one step of a stable sort by time: the note goes behind the notes whose time is not greater
InsertByTime(sorted, note) ==
    LET k == Cardinality({i \in 1 .. Len(sorted) : sorted[i].time <= note.time})
    IN SubSeq(sorted, 1, k) \o <<note>> \o SubSeq(sorted, k + 1, Len(sorted))

\* notes.sort(key=lambda x: x["time"]); list.sort is stable
RECURSIVE SortByTime(_)
SortByTime(notes) ==
    IF notes = <<>> THEN <<>>
    ELSE InsertByTime(SortByTime(SubSeq(notes, 1, Len(notes) - 1)), notes[Len(notes)])

\* the loop of _parse_simple_chart: the notes in file order, before the sort
SimpleNotes(data) ==
    LET src == Get(data, "notes", <<>>) IN
    [i \in 1 .. Len(src) |->
        [time |-> Get(src[i], "time", 0),
         lane |-> IntOf(Get(src[i], "lane", 0)),
         sustain |-> Get(src[i], "sustain", 0)]]

parse_simple_chart(data) ==
    [lanes |-> IntOf(Get(data, "lanes", 8)),
     notes |-> SortByTime(SimpleNotes(data)),
     title |-> Get(data, "title", "Unknown"),
     artist |-> Get(data, "artist", "Unknown"),
     bpm |-> Get(data, "bpm", 120)]

\* the inner loop of _parse_psych_chart: entries shorter than 2 are skipped
RECURSIVE SectionNotes(_)
SectionNotes(entries) ==
    IF entries = <<>> THEN <<>>
    ELSE LET entry == entries[1]
             rest == SectionNotes(SubSeq(entries, 2, Len(entries)))
         IN IF Len(entry) < 2 THEN rest
            ELSE <<[time |-> entry[1],
                    lane |-> IntOf(entry[2]) % 4,
                    sustain |-> IF Len(entry) > 3 THEN entry[4] ELSE 0]>> \o rest

\* the outer loop of _parse_psych_chart: the notes of all sections in file order, before the sort
RECURSIVE PsychNotes(_)
PsychNotes(sections) ==
    IF sections = <<>> THEN <<>>
    ELSE SectionNotes(Get(sections[1], "sectionNotes", <<>>))
            \o PsychNotes(SubSeq(sections, 2, Len(sections)))

parse_psych_chart(data) ==
    LET song == data.song IN
    [lanes |-> 4,
     notes |-> SortByTime(PsychNotes(Get(song, "notes", <<>>))),
     title |-> Get(song, "song", "Unknown"),
     artist |-> Get(song, "artist", "Unknown"),
     bpm |-> Get(song, "bpm", 120)]

\* the object load_json_from_mods returns for the chart file, {} when there is none
FileData(file) == IF file.found THEN file.data ELSE [k \in {} |-> 0]

\* load_song_meta: read from the same file as the chart
load_song_meta(file, song_id) ==
    LET data == FileData(file) IN
    [title |-> Get(data, "title", song_id),
     artist |-> Get(data, "artist", "Unknown"),
     bpm |-> Get(data, "bpm", 120)]

\* the notes of the file before the sort, by shape
UnsortedNotes(file) ==
    LET data == FileData(file) IN
    IF "song" \in DOMAIN data THEN PsychNotes(Get(data.song, "notes", <<>>)) ELSE SimpleNotes(data)

\* load_chart for the song whose chart file is file
load_chart_file(file, song_id) ==
    LET data == FileData(file) IN
    IF "song" \in DOMAIN data THEN parse_psych_chart(data)
    ELSE LET simple == parse_simple_chart(data)
             meta == load_song_meta(file, song_id)
         IN [simple EXCEPT !.title = OrStr(@, meta.title),
                           !.artist = OrStr(@, meta.artist),
                           !.bpm = OrNum(@, meta.bpm)]

----------------------------------------------------------------------------
(* EditorApp: main() --editor <songId>                                       *)

SongId == "tutorial"

\* variant: the notes are written without their sustain
to_save_NoSustain(chart, song_id) ==
    LET notes_sorted == IF Get(chart, "notes", <<>>) # <<>> THEN SortByTime(chart.notes) ELSE <<>> IN
    [id |-> song_id,
     title |-> Get(chart, "title", song_id),
     artist |-> Get(chart, "artist", "Unknown"),
     bpm |-> Get(chart, "bpm", 120),
     lanes |-> 2 * Get(chart, "lanes", 4),
     audioMode |-> "auto",
     notes |-> [i \in 1 .. Len(notes_sorted) |->
                  [time |-> Get(notes_sorted[i], "time", 0),
                   lane |-> 2 * Get(notes_sorted[i], "lane", 0)]],
     events |-> <<>>]

\* the object EditorApp._save hands to json.dump; a whole number n is the JSON number 2n in halves
to_save(chart, song_id) ==
    LET notes_sorted == IF Get(chart, "notes", <<>>) # <<>> THEN SortByTime(chart.notes) ELSE <<>> IN
    [id |-> song_id,
     title |-> Get(chart, "title", song_id),
     artist |-> Get(chart, "artist", "Unknown"),
     bpm |-> Get(chart, "bpm", 120),
     lanes |-> 2 * Get(chart, "lanes", 4),
     audioMode |-> "auto",
     notes |-> [i \in 1 .. Len(notes_sorted) |->
                  [time |-> Get(notes_sorted[i], "time", 0),
                   lane |-> 2 * Get(notes_sorted[i], "lane", 0),
                   sustain |-> Get(notes_sorted[i], "sustain", 0)]],
     events |-> <<>>]

\* EditorApp._lane_from_x
lane_from_x(x, lanes, left_x, lane_w) ==
    LET rel == x - left_x IN
    IF rel < 0 THEN 0 ELSE Max(0, Min(lanes - 1, rel \div lane_w))

\* the time under the pointer in _handle_click, for the editor at time_ms = 0:
\* t_until = (y - hit_y) / -0.6 with hit_y = int(700 * 0.8), then max(0.0, .)
ClickTime(y) == Max(0, ((560 - y) * 10) \div 6)

\* min(range(len(notes)), key=distance to t): the first index of least distance
Nearest(notes, t) ==
    CHOOSE i \in 1 .. Len(notes) :
        /\ \A j \in 1 .. Len(notes) : Abs(notes[i].time - t) <= Abs(notes[j].time - t)
        /\ \A j \in 1 .. i - 1 : Abs(notes[j].time - t) > Abs(notes[i].time - t)

\* history values of the editor
LoadOp(resaved, source) == [op |-> "load", resaved |-> resaved, source |-> source]
SaveOp(source) == [op |-> "save", source |-> source]
ClickOp == [op |-> "click"]

Still == UNCHANGED <<scenes, settings, music, host, quit_posted, songs>>

\* EditorApp._handle_click, button 1: a note is added and the list sorted again
EditorAddNote(x, y, shift) ==
    /\ editor.open
    /\ editor.chart.lanes >= 1
    /\ Len(editor.chart.notes) < MaxNotes
    /\ LET lanes == editor.chart.lanes
           lane == lane_from_x(x, lanes, 100, 1000 \div lanes)
           note == [time |-> ClickTime(y), lane |-> lane, sustain |-> IF shift THEN 600 ELSE 0]
       IN editor' = [editor EXCEPT !.chart.notes = SortByTime(Append(@, note))]
    /\ last' = ClickOp
    /\ UNCHANGED disk /\ Still

\* EditorApp._handle_click, button 3: the note nearest in time is removed if it is within 120 ms
EditorRemoveNote(y) ==
    /\ editor.open
    /\ editor.chart.lanes >= 1
    /\ LET notes == editor.chart.notes
           t == ClickTime(y)
       IN editor' = IF notes # <<>> /\ Abs(notes[Nearest(notes, t)].time - t) <= 120
                    THEN [editor EXCEPT !.chart.notes =
                             SubSeq(notes, 1, Nearest(notes, t) - 1)
                                \o SubSeq(notes, Nearest(notes, t) + 1, Len(notes))]
                    ELSE editor
    /\ last' = ClickOp
    /\ UNCHANGED disk /\ Still

\* Ctrl+S: EditorApp._save writes the chart to the chart file
EditorSave ==
    /\ editor.open
    /\ disk' = [found |-> TRUE, data |-> to_save(editor.chart, editor.song_id)]
    /\ last' = SaveOp(disk)
    /\ UNCHANGED editor /\ Still

\* L: the chart is loaded from the chart file again
EditorReload ==
    /\ editor.open
    /\ editor' = [editor EXCEPT !.chart = load_chart_file(disk, editor.song_id)]
    /\ last' = IF last.op = "save" THEN LoadOp(TRUE, last.source) ELSE LoadOp(FALSE, disk)
    /\ UNCHANGED disk /\ Still

\* EditorApp.__init__
EditorApp(file, song_id) == [open |-> TRUE, song_id |-> song_id, chart |-> load_chart_file(file, song_id)]

\* the chart files the editor is started on
None == [k \in {} |-> 0]
RawLanes == {-2, 3, 10}
SimpleRawNotes ==
    {[time |-> t, lane |-> l] : t \in {0, 100}, l \in RawLanes}
        \cup {[time |-> 100, lane |-> 3, sustain |-> 50], [lane |-> 2], None}
SimpleHeads ==
    {None, [lanes |-> 9, title |-> "", bpm |-> 0],
     [lanes |-> 6, title |-> "Tutorial", artist |-> "", bpm |-> 150]}
PsychEntries ==
    {<<t, l>> : t \in {0, 100}, l \in RawLanes} \cup {<<100, 3, 0, 50>>, <<100>>}
PsychHeads == {None, [song |-> "", bpm |-> 0], [song |-> "Tutorial", artist |-> "", bpm |-> 150]}

UpTo2(S) == {<<>>} \cup {<<a>> : a \in S} \cup {<<a, b>> : a \in S, b \in S}
Triples(S) == {<<a, b, c>> : a \in S, b \in S, c \in S}

SimpleFiles ==
    {[found |-> TRUE, data |-> [notes |-> ns] @@ h] : ns \in UpTo2(SimpleRawNotes), h \in SimpleHeads}
        \cup {[found |-> TRUE, data |-> [notes |-> ns]] :
                 ns \in Triples({[time |-> 100, lane |-> 3], [time |-> 0, lane |-> -2], [time |-> 0, lane |-> 10]})}
        \cup {[found |-> TRUE, data |-> None]}
PsychFiles ==
    {[found |-> TRUE, data |-> [song |-> [notes |-> <<[sectionNotes |-> es]>>] @@ h]] :
        es \in UpTo2(PsychEntries), h \in PsychHeads}
    \cup {[found |-> TRUE, data |-> [song |-> [notes |-> <<[sectionNotes |-> <<a>>], [mustHitSection |-> TRUE], [sectionNotes |-> <<b>>]>>]]] :
        a \in PsychEntries, b \in PsychEntries}
    \cup {[found |-> TRUE, data |-> [song |-> [notes |-> <<[sectionNotes |-> es]>>]]] :
        es \in Triples({<<100, 3>>, <<0, -2>>, <<0, 10, 0, 50>>})}
ChartFiles == SimpleFiles \cup PsychFiles \cup {NoFile}

\* main() with --editor: EditorApp(args.editor), which loads the chart
EditorStart ==
    /\ ~editor.open
    /\ editor' = EditorApp(disk, SongId)
    /\ last' = LoadOp(FALSE, disk)
    /\ UNCHANGED disk /\ Still

InitChart ==
    /\ disk \in ChartFiles
    /\ editor = NoEditor
    /\ last = NoOp
    /\ songs = <<>>
    /\ scenes = <<>>
    /\ settings = DefaultSettings
    /\ music = "paused"
    /\ host = "running"
    /\ quit_posted = "no"

NextChart ==
    \/ EditorStart
    \/ \E x \in {40, 1190} : EditorAddNote(x, 500, FALSE)
    \/ EditorAddNote(600, 560, TRUE)
    \/ EditorRemoveNote(500)
    \/ EditorSave
    \/ EditorReload

SpecChart == InitChart /\ [][NextChart]_vars

----------------------------------------------------------------------------
(* Chart files that are valid JSON but not a chart.  json.load succeeds on   *)
(* them, so the except clause of load_json_from_mods is not reached; what     *)
(* follows is float() / int() on a value that is no number, or .get on a      *)
(* value that is no object.  None of load_chart, the two parsers,             *)
(* load_song_meta, GameplayScene.on_enter, Game.push_scene and Game.run has a *)
(* try block around these calls.                                              *)

\* a JSON value that float() and int() reject (a string such as "fast", null,
\* a list); one token stands for all of them
NotANumber == -999999999

\* float(v) / int(v) raises ValueError or TypeError
Rejects(v) == v = NotANumber

\* _parse_simple_chart raises
SimpleParseRaises(data) ==
    \/ Rejects(Get(data, "lanes", 8))
    \/ \E i \in 1 .. Len(Get(data, "notes", <<>>)) :
          LET n == Get(data, "notes", <<>>)[i] IN
          Rejects(Get(n, "time", 0)) \/ Rejects(Get(n, "lane", 0)) \/ Rejects(Get(n, "sustain", 0))
    \/ Rejects(Get(data, "bpm", 120))

\* _parse_psych_chart raises
PsychParseRaises(data) ==
    LET sections == Get(data.song, "notes", <<>>) IN
    \/ \E s \in 1 .. Len(sections) :
          \E e \in 1 .. Len(Get(sections[s], "sectionNotes", <<>>)) :
              LET entry == Get(sections[s], "sectionNotes", <<>>)[e] IN
              /\ Len(entry) >= 2
              /\ Rejects(entry[1]) \/ Rejects(entry[2]) \/ (Len(entry) > 3 /\ Rejects(entry[4]))
    \/ Rejects(Get(data.song, "bpm", 120))

\* load_chart raises: a file whose top level is a JSON array has no .get
\* (AttributeError in _parse_simple_chart); otherwise the parser of its shape or
\* load_song_meta raises
load_chart_raises(file) ==
    IF file.found /\ "array" \in DOMAIN file THEN TRUE
    ELSE LET data == FileData(file) IN
         IF "song" \in DOMAIN data THEN PsychParseRaises(data)
         ELSE SimpleParseRaises(data) \/ Rejects(Get(data, "bpm", 120))

\* the rest of GameplayScene.on_enter raises: (lane + 2) % lanes with lanes = 0
on_enter_raises(chart) == chart.lanes = 0 /\ chart.notes # <<>>

----------------------------------------------------------------------------
(* One freeplay session on the chart file of an installed mod: the player    *)
(* is in FreeplayScene with the song selected and presses Return.            *)

\* the chart files of the mod, well-formed ones first
EarlyFile == [found |-> TRUE, data |-> [notes |-> <<[time |-> -40, lane |-> 0], [time |-> 1000, lane |-> 2]>>]]
TwinFile == [found |-> TRUE, data |-> [notes |-> <<[time |-> 1000, lane |-> 0], [time |-> 1000, lane |-> 0]>>]]
NarrowFile == [found |-> TRUE, data |-> [lanes |-> 4, notes |-> <<[time |-> 1000, lane |-> 0]>>]]
StrayFile == [found |-> TRUE, data |-> [notes |-> <<[time |-> 200, lane |-> -2]>>]]
HoldFile ==
    [found |-> TRUE,
     data |-> [notes |-> <<[time |-> 300, lane |-> 2, sustain |-> 400], [time |-> 500, lane |-> 2]>>]]
ZeroLanesFile == [found |-> TRUE, data |-> [lanes |-> 0, notes |-> <<[time |-> 1000, lane |-> 0]>>]]
BadTimeFile == [found |-> TRUE, data |-> [notes |-> <<[time |-> NotANumber, lane |-> 0]>>]]
BadLanesFile == [found |-> TRUE, data |-> [lanes |-> NotANumber, notes |-> <<>>]]
BadBpmFile == [found |-> TRUE, data |-> [bpm |-> NotANumber, notes |-> <<[time |-> 1000, lane |-> 0]>>]]
BadEntryFile ==
    [found |-> TRUE, data |-> [song |-> [notes |-> <<[sectionNotes |-> << <<1000, NotANumber>> >>]>>]]]
ArrayFile == [found |-> TRUE, array |-> <<1000>>]

ModFiles ==
    {NoFile, EarlyFile, TwinFile, NarrowFile, StrayFile, HoldFile, ZeroLanesFile,
     BadTimeFile, BadLanesFile, BadBpmFile, BadEntryFile, ArrayFile}

\* what songs holds for a song whose chart load_chart cannot return
Unreadable == [raises |-> TRUE]

InitMod ==
    /\ disk \in ModFiles
    /\ songs = <<IF load_chart_raises(disk) THEN Unreadable ELSE load_chart_file(disk, SongId)>>
    /\ \E d \in 0 .. 2 :
          scenes = push_scene(push_scene(<<>>, MainMenuScene), [FreeplayScene EXCEPT !.diff_index = d])
    /\ settings \in SavedSettings
    /\ music = "idle"
    /\ host = "running"
    /\ quit_posted = "no"
    /\ editor = NoEditor
    /\ last = NoOp

\* FreeplayScene.handle_event: Return / Space, with the chart read from disk.
\* push_scene has exited the old top and appended the new scene when on_enter
\* raises; the exception leaves handle_event and Game.run.
FreeplayPlayFile ==
    /\ Dispatch("Freeplay")
    /\ Len(list_songs) > 0
    /\ LET g == GameplayScene(list_songs[current_scene.selected + 1], 0,
                              Difficulties[current_scene.diff_index + 1])
       IN IF load_chart_raises(disk) \/ on_enter_raises(load_chart(g.song_id))
          THEN /\ scenes' = Append(SetTop(scenes, OnExit(current_scene)), g)
               /\ host' = "crashed"
          ELSE /\ scenes' = push_scene(scenes, g)
               /\ UNCHANGED host
    /\ last' = [op |-> "play"]
    /\ UNCHANGED <<settings, music, quit_posted, songs, disk, editor>>

NextMod ==
    \/ FreeplayPlayFile
    \/ \E lane_index \in LANE_KEYS : GameplayLaneKey(lane_index)
    \/ \E dt \in HealthDtSet : GameplayUpdate(dt)

SpecMod == InitMod /\ [][NextMod]_vars

----------------------------------------------------------------------------
(* The same session with frames that keep coming: Game.run calls update on   *)
(* the top scene once per pass of its loop, so an update that is possible    *)
(* is not put off for ever.  Long frames only, fewer files.                  *)

LiveFiles == {NoFile, EarlyFile, TwinFile, NarrowFile, StrayFile}

InitLive == InitMod /\ disk \in LiveFiles

NextLive ==
    \/ FreeplayPlayFile
    \/ \E lane_index \in LANE_KEYS : GameplayLaneKey(lane_index)
    \/ \E dt \in HostDtSet : GameplayUpdate(dt)

SpecLive == InitLive /\ [][NextLive]_vars /\ WF_vars(\E dt \in HostDtSet : GameplayUpdate(dt))

----------------------------------------------------------------------------
(* Properties *)

GameplayAt(p) == p \in 1 .. Len(scenes) /\ scenes[p].kind = "Gameplay"

\* the top scene after the step
next_scene == scenes'[Len(scenes')]

\* the judgment state of a session
Session(g) ==
    <<g.time_ms, g.hits, g.misses, g.combo, g.health, g.chart.notes, g.sustain_start, g.sustain_end>>

\* the notes of the chart as loaded, before any of them was consumed
Loaded(g) == load_chart(g.song_id).notes

\* C1: between two on_enter calls of a gameplay scene no chart note is judged
\* (counted as a hit or as a miss) more than once, whatever the order of key
\* presses and updates.
C1_JudgedAtMostOnce ==
    \A p \in 1 .. Len(scenes) :
        GameplayAt(p) =>
            \A i \in 1 .. Len(scenes[p].judged) :
                /\ scenes[p].judged[i] <= 1
                /\ scenes[p].judged[i] = 1 => scenes[p].chart.notes[i].time = Consumed

\* C1 witness: the key of a lane was pressed while a note of that lane, already
\* judged, still had its original time inside the hit window, and nothing was judged.
C1_Witness ==
    /\ scenes # <<>> /\ current_scene.kind = "Gameplay"
    /\ last.op = "press" /\ last.note = 0
    /\ \E i \in 1 .. Len(current_scene.judged) :
          /\ current_scene.judged[i] = 1
          /\ Loaded(current_scene)[i].lane = last.lane
          /\ Abs(Loaded(current_scene)[i].time - current_scene.time_ms) <= current_scene.hit_window

\* the step resumes the paused session: Escape in PauseScene, or Return on "Resume"
ResumeStep ==
    \/ PauseEscape
    \/ PauseActivate /\ PauseItems[current_scene.selected + 1] = "Resume"

\* C2 (as claimed): when PauseScene resumes, the gameplay session that comes
\* back on top has the simulation time, hits, misses, combo, health, consumed
\* notes and sustains it had when it was paused.
C2_ResumeKeepsSession ==
    [][ResumeStep => Session(next_scene) = Session(scenes[Len(scenes) - 1])]_vars

\* the update of this step ran the finish branch of a story session
StoryFinishStep ==
    /\ scenes # <<>> /\ current_scene.kind = "Gameplay" /\ current_scene.on_finish # 0
    /\ last'.op = "update" /\ last'.finished

\* C3 (as claimed): in Story Mode, when song k of the week finishes the session
\* of song k+1 comes on top, and when the last song finishes StoryScene is on top.
C3_StoryPlaysWeekInOrder ==
    [][StoryFinishStep =>
          IF current_scene.song_id < Len(list_songs)
          THEN next_scene.kind = "Gameplay" /\ next_scene.song_id = current_scene.song_id + 1
          ELSE next_scene.kind = "Story"]_vars

\* the notes of lane_index inside the hit window of the current time
InWindow(g, lane_index) ==
    {i \in 1 .. Len(g.chart.notes) :
        /\ g.chart.notes[i].lane = lane_index
        /\ g.chart.notes[i].time - g.time_ms <= g.hit_window
        /\ g.time_ms - g.chart.notes[i].time <= g.hit_window}

\* the press of this step found exactly one note of its lane inside the window and took it
SingleHit(lane_index) ==
    (GameplayLaneKey(lane_index) /\ Cardinality(InWindow(current_scene, lane_index)) = 1)
    => \E i \in InWindow(current_scene, lane_index) :
          /\ next_scene.chart.notes[i].time = Consumed
          /\ next_scene.hits = current_scene.hits + 1
          /\ next_scene.combo = current_scene.combo + 1

\* the press of this step repeats, at the same simulation time, a press of the same lane that hit a note
RepeatedPress(lane_index) ==
    /\ GameplayLaneKey(lane_index)
    /\ last.op = "press" /\ last.lane = lane_index /\ last.note # 0
    /\ InWindow(current_scene, lane_index) = {}

\* C4 (as claimed): a press with exactly one pending note of its lane within the
\* window (bounds included) consumes that note and adds 1 to hits and to combo;
\* the same press repeated at once fails and changes no counter.
C4_HitOnceThenNoCounter ==
    [][\A lane_index \in LANE_KEYS :
          /\ SingleHit(lane_index)
          /\ RepeatedPress(lane_index) =>
                /\ last'.note = 0
                /\ next_scene.chart = current_scene.chart
                /\ next_scene.hits = current_scene.hits
                /\ next_scene.combo = current_scene.combo
                /\ next_scene.misses = current_scene.misses]_vars

\* C4 (amended): as C4, but the repeated press leaves misses and health alone
\* only while ghost tapping is allowed; with ghost tapping off it fails all the
\* same, consumes nothing, leaves hits and combo alone, and counts one miss.
C4_HitOnceThenGhostPolicy ==
    [][\A lane_index \in LANE_KEYS :
          /\ SingleHit(lane_index)
          /\ RepeatedPress(lane_index) =>
                /\ last'.note = 0
                /\ next_scene.chart = current_scene.chart
                /\ next_scene.hits = current_scene.hits
                /\ next_scene.combo = current_scene.combo
                /\ next_scene.misses = current_scene.misses + (IF settings.ghost_tap THEN 0 ELSE 1)
                /\ settings.ghost_tap => next_scene.health = current_scene.health]_vars

\* C4 witness: a note was hit at the very edge of its window and the press was
\* repeated at once with ghost tapping off: one hit, one miss from the penalty.
C4_Witness ==
    /\ scenes # <<>> /\ current_scene.kind = "Gameplay"
    /\ ~settings.ghost_tap
    /\ last.op = "press" /\ last.note = 0
    /\ current_scene.hits = 1 /\ current_scene.misses = 1 /\ current_scene.combo = 1
    /\ \E i \in 1 .. Len(current_scene.judged) :
          /\ current_scene.judged[i] = 1
          /\ Loaded(current_scene)[i].lane = last.lane
          /\ Abs(Loaded(current_scene)[i].time - current_scene.time_ms) = current_scene.hit_window

\* the notes an update that leaves the clock at t has to sweep, going by time alone
Expired(g, t) ==
    {i \in 1 .. Len(g.chart.notes) :
        g.chart.notes[i].time >= 0 /\ g.chart.notes[i].time < t - g.hit_window}

\* the update of this step touches health outside the miss sweep (opponent note or open sustain)
OtherHealthChange(g, t) ==
    \/ \E i \in 1 .. Len(g.opponent_notes) :
          g.opponent_notes[i].time >= 0 /\ Abs(g.opponent_notes[i].time - t) <= g.hit_window
    \/ \E l \in LANE_KEYS : g.sustain_end[l] > t

\* C5 (as claimed): an update that leaves the clock at t consumes, as misses,
\* exactly the pending notes with 0 <= time < t - hitWindow: misses grows by
\* their number, combo is 0 if there is one, each costs 0.06 x hpMultiplier of
\* health (floor 0), and every other note is left as it was.
C5_SweepTakesEveryExpiredNote ==
    [][\A dt \in DtSet :
          GameplayUpdate(dt) =>
             LET g == current_scene
                 due == Expired(g, g.time_ms + dt)
             IN /\ last'.swept = Cardinality(due)
                /\ ~last'.finished =>
                      /\ \A i \in 1 .. Len(g.chart.notes) :
                            next_scene.chart.notes[i] =
                               IF i \in due THEN [g.chart.notes[i] EXCEPT !.time = Consumed]
                               ELSE g.chart.notes[i]
                      /\ next_scene.misses = g.misses + Cardinality(due)
                      /\ due # {} => next_scene.combo = 0
                      /\ ~OtherHealthChange(g, g.time_ms + dt) =>
                            next_scene.health =
                               Max(0, g.health - Cardinality(due) * MissPenalty * settings.hp_loss_mult)]_vars

\* C6: a press with several pending notes of its lane inside the window consumes
\* exactly one note, the one with the smallest time (the first in chart order
\* among equals), also when a later one is nearer to the press time.
C6_EarliestNoteFirst ==
    [][\A lane_index \in LANE_KEYS :
          GameplayLaneKey(lane_index) /\ InWindow(current_scene, lane_index) # {} =>
             LET g == current_scene
                 cand == InWindow(g, lane_index)
             IN \E i \in cand :
                   /\ \A j \in cand : g.chart.notes[i].time <= g.chart.notes[j].time
                   /\ \A j \in cand : g.chart.notes[i].time = g.chart.notes[j].time => i <= j
                   /\ next_scene.chart.notes[i].time = Consumed
                   /\ \A j \in 1 .. Len(g.chart.notes) :
                         j # i => next_scene.chart.notes[j] = g.chart.notes[j]]_vars

\* C6 witness: the last press took a note although a later note of the lane,
\* still pending, is inside the window and nearer to the press time.
C6_Witness ==
    /\ scenes # <<>> /\ current_scene.kind = "Gameplay"
    /\ last.op = "press" /\ last.note # 0
    /\ \E j \in InWindow(current_scene, last.lane) :
          /\ j > last.note
          /\ Loaded(current_scene)[j].time > Loaded(current_scene)[last.note].time
          /\ Abs(Loaded(current_scene)[j].time - current_scene.time_ms)
                < Abs(Loaded(current_scene)[last.note].time - current_scene.time_ms)

\* C7: the health of every gameplay session stays within [0, 1].
C7_HealthInRange ==
    \A p \in 1 .. Len(scenes) :
        GameplayAt(p) => scenes[p].health >= 0 /\ scenes[p].health <= HealthMax

\* C7 witness: with the 2x multiplier health sits at one of its bounds after
\* hits or misses were counted.
C7_Witness ==
    /\ scenes # <<>> /\ current_scene.kind = "Gameplay"
    /\ current_scene.hp_multiplier = 2
    /\ current_scene.health \in {0, HealthMax}
    /\ current_scene.hits + current_scene.misses > 0

\* C8 (as claimed): a gameplay scene that ran its finish branch is done for
\* good: it finishes once, its clock is not reset and it is never on top again.
C8_FinishedIsTerminal ==
    \A p \in 1 .. Len(scenes) :
        GameplayAt(p) /\ scenes[p].finishes > 0 =>
            /\ scenes[p].finishes = 1
            /\ scenes[p].time_ms > GraceMs
            /\ p < Len(scenes)

\* the step finished the session on top: audio stopped and the scene popped
PoppedBack ==
    /\ music' = "idle"
    /\ scenes' = SubSeq(scenes, 1, Len(scenes) - 1)

\* the step left the session on top, running
StillPlaying ==
    /\ music' = "playing"
    /\ Len(scenes') = Len(scenes)
    /\ next_scene.kind = "Gameplay"

\* C9: a freeplay session on a chart without notes is finished by the update
\* that takes its clock past 5000 ms and by no update that leaves it at 5000 ms or less.
C9_EmptyChartFinishesAfterGrace ==
    [][\A dt \in DtSet :
          GameplayUpdate(dt) /\ Len(current_scene.chart.notes) = 0 =>
             IF current_scene.time_ms + dt > GraceMs THEN PoppedBack ELSE StillPlaying]_vars

\* C9 witness: the last update finished a session on the empty chart, just past 5000 ms.
C9_Witness ==
    /\ last.op = "update" /\ last.finished
    /\ Len(songs[last.song_id].notes) = 0
    /\ last.time_ms > GraceMs /\ last.time_ms - GraceMs <= 40

ConsumedAfterSweep(g, t) ==
    \A i \in 1 .. Len(g.chart.notes) :
        \/ g.chart.notes[i].time < 0
        \/ g.chart.notes[i].time < t - g.hit_window /\ g.chart.notes[i].lane >= 0

C11_PlaySongOncePerScene ==
    [][\A dt \in HostDtSet :
          GameplayUpdate(dt) /\ ~current_scene.play_started => ~current_scene.played]_vars

\* the step is the finishing update of a story session, whose on_finish is StoryScene._advance
StoryCallback(p) ==
    /\ StoryFinishStep
    /\ p = current_scene.on_finish
    /\ scenes'[p] = [scenes[p] EXCEPT !.index = @ + 1]

\* C12: events and updates go to the scene on top only: a press or an update
\* is handled by the gameplay scene on top, and every scene that is covered
\* before and after a step is left as it was by that step (the one exception
\* is the index of a StoryScene, moved by the continuation its finished session calls).
C12_OnlyTopSceneRuns ==
    [][/\ last'.op \in {"press", "update"} => scenes # <<>> /\ current_scene.kind = "Gameplay"
       /\ \A p \in 1 .. Len(scenes) - 1 :
             p < Len(scenes') => scenes'[p] = scenes[p] \/ StoryCallback(p)]_vars

\* C12 witness: a session that has run and judged notes lies under PauseScene and
\* SettingsScene, both of which have handled key presses since.
C12_Witness ==
    /\ Len(scenes) >= 3 /\ current_scene.kind = "Settings" /\ current_scene.selected # 0
    /\ scenes[Len(scenes) - 1].kind = "Pause" /\ scenes[Len(scenes) - 1].selected # 0
    /\ scenes[Len(scenes) - 2].kind = "Gameplay"
    /\ scenes[Len(scenes) - 2].time_ms > 0
    /\ scenes[Len(scenes) - 2].hits + scenes[Len(scenes) - 2].misses > 0

\* the last step was the stack operation name, called on a stack of at least depth scenes
LastStackOp(name, depth) ==
    last.op = "stack" /\ last.name = name /\ Len(last.before) >= depth

\* how often the log holds method called on the scene object oid
CallsOn(calls, method, oid) ==
    Cardinality({k \in 1 .. Len(calls) : calls[k] = [method |-> method, oid |-> oid]})

\* C13: push_scene(S) on a non-empty stack calls on_exit on the old top, then
\* on_enter on S, and nothing else; S is on top and the scenes below are as they were.
C13_PushExitsTopThenEntersNew ==
    LastStackOp("push", 1) =>
        LET n == Len(last.before) IN
        /\ last.calls = <<Call("on_exit", last.before[n]), Call("on_enter", last.arg)>>
        /\ scenes = Append(last.before, OnEnter(last.arg))

\* C13 witness: a scene was pushed on a stack of two or more scenes, one of the
\* covered ones a gameplay session that has run.
C13_Witness ==
    /\ LastStackOp("push", 2)
    /\ \E p \in 1 .. Len(last.before) - 1 :
          last.before[p].kind = "Gameplay" /\ last.before[p].time_ms > 0

\* C14: pop_scene on a stack of depth >= 2 calls on_exit on the removed top,
\* then on_enter on the new top, once each and nothing else; after push(B) on
\* top A followed by pop, the stack holds the scenes it held before the push,
\* A was not entered by the push and was entered once by the pop.
C14_PopExitsTopThenEntersUncovered ==
    LastStackOp("pop", 2) =>
        LET n == Len(last.before)
            A == last.before[n - 1]
        IN /\ last.calls = <<Call("on_exit", last.before[n]), Call("on_enter", A)>>
           /\ scenes = Append(SubSeq(last.before, 1, n - 2), OnEnter(A))
           /\ last.prev # NoOp /\ last.prev.name = "push" /\ last.prev.before # <<>> =>
                 /\ Oids(scenes) = Oids(last.prev.before)
                 /\ CallsOn(last.prev.calls, "on_enter", A.oid) = 0
                 /\ CallsOn(last.calls, "on_enter", A.oid) = 1

\* C14 witness: a scene was pushed over a gameplay session that has run and
\* popped again, and the session, entered by the pop, is back at time 0.
C14_Witness ==
    /\ LastStackOp("pop", 2)
    /\ last.prev # NoOp /\ last.prev.name = "push"
    /\ last.before[Len(last.before) - 1].kind = "Gameplay"
    /\ last.before[Len(last.before) - 1].time_ms > 0
    /\ current_scene.time_ms = 0

\* C15: replace_scene(S) on a non-empty stack leaves the scene objects that
\* pop_scene followed by push_scene(S) leaves, in the same order and at the
\* same depth; it calls on_exit on the old top, then on_enter on S, and nothing
\* else, so the scenes beneath the old top are as they were.
C15_ReplaceIsPopPushWithoutReentry ==
    LastStackOp("replace", 1) =>
        LET n == Len(last.before) IN
        /\ Oids(scenes) = Oids(Game_push_scene(Game_pop_scene(Traced(last.before)), last.arg).scenes)
        /\ last.calls = <<Call("on_exit", last.before[n]), Call("on_enter", last.arg)>>
        /\ Len(scenes) = n
        /\ scenes = Append(SubSeq(last.before, 1, n - 1), OnEnter(last.arg))

\* C15 witness: the top was replaced over a gameplay session that has run;
\* pop_scene followed by push_scene would have entered, and so reset, that session.
C15_Witness ==
    /\ LastStackOp("replace", 2)
    /\ scenes[Len(scenes) - 1].kind = "Gameplay"
    /\ scenes[Len(scenes) - 1].time_ms > 0
    /\ scenes # Game_push_scene(Game_pop_scene(Traced(last.before)), last.arg).scenes

\* C16 (as claimed): once a pop has emptied the stack, Game.run ends without
\* an exception: the host is never left by an error while the stack is empty.
C16_EmptyStackEndsRunCleanly ==
    scenes = <<>> => host # "crashed"

\* the notes are in ascending order of time
Sorted(notes) == \A i, j \in 1 .. Len(notes) : i < j => notes[i].time <= notes[j].time

\* the notes of the given time, in list order
AtTime(notes, t) == SelectSeq(notes, LAMBDA n : n.time = t)

\* C17: the notes of a chart just parsed, from either shape of file, are the
\* notes of the file in ascending order of time, notes of equal time in the
\* order of the file.
C17_ParsedNotesStablySorted ==
    last.op = "load" =>
        LET src == UnsortedNotes(disk)
            notes == editor.chart.notes
        IN /\ Len(notes) = Len(src)
           /\ Sorted(notes)
           /\ \A i \in 1 .. Len(src) : AtTime(notes, src[i].time) = AtTime(src, src[i].time)

\* C17 witness: a chart was parsed from a file that has a later note in front of
\* an earlier one and two different notes of the same time.
C17_Witness ==
    /\ last.op = "load"
    /\ \E i, j \in 1 .. Len(UnsortedNotes(disk)) :
          i < j /\ UnsortedNotes(disk)[i].time > UnsortedNotes(disk)[j].time
    /\ \E i, j \in 1 .. Len(UnsortedNotes(disk)) :
          /\ i < j /\ UnsortedNotes(disk)[i].time = UnsortedNotes(disk)[j].time
          /\ UnsortedNotes(disk)[i] # UnsortedNotes(disk)[j]

\* C18 (as claimed): every note of a chart just parsed has its lane in
\* [0, lanes), and a chart parsed from the sectioned shape has 4 lanes.
C18_ParsedLanesInRange ==
    last.op = "load" =>
        /\ \A i \in 1 .. Len(editor.chart.notes) :
              editor.chart.notes[i].lane >= 0 /\ editor.chart.notes[i].lane < editor.chart.lanes
        /\ "song" \in DOMAIN FileData(disk) => editor.chart.lanes = 4

\* every note of the chart has its lane in [0, lanes)
LanesInRange(chart) ==
    \A i \in 1 .. Len(chart.notes) : chart.notes[i].lane >= 0 /\ chart.notes[i].lane < chart.lanes

\* C19 (as claimed): the notes of a chart are in ascending order of time in
\* every state, in a gameplay session as in the editor.  Sessions on a chart
\* with a lane out of range are left aside: they are no part of this claim's case.
C19_NotesAlwaysSorted ==
    /\ \A p \in 1 .. Len(scenes) :
          GameplayAt(p) /\ LanesInRange(scenes[p].chart) => Sorted(scenes[p].chart.notes)
    /\ editor.open => Sorted(editor.chart.notes)

\* C20: a chart written by the editor's save and loaded again is the chart
\* that was written: lanes, title, artist, bpm and the list of notes are equal.
C20_SaveThenLoadGivesEqualChart ==
    [][EditorReload /\ last.op = "save" => editor'.chart = editor.chart]_vars

\* C20 witness: a chart parsed from a sectioned file, one of its notes with a
\* lane wrapped from a negative number and one with a sustain, was saved over
\* that file in the simple shape and loaded again.
C20_Witness ==
    /\ last.op = "load" /\ last.resaved
    /\ "song" \in DOMAIN FileData(last.source)
    /\ disk # last.source
    /\ editor.chart = load_chart_file(last.source, SongId)
    /\ \E i \in 1 .. Len(UnsortedNotes(last.source)) :
          UnsortedNotes(last.source)[i].lane = 3 /\ UnsortedNotes(last.source)[i].sustain = 0
    /\ \E i \in 1 .. Len(editor.chart.notes) : editor.chart.notes[i].sustain > 0

\* the factor on base_speed, in tenths, that goes with a difficulty
SpeedTenths(difficulty) ==
    IF difficulty = "easy" THEN 9 ELSE IF difficulty = "hard" THEN 11 ELSE 10

\* the step is a lane key or an update that leaves the session on top
SessionStep ==
    /\ scenes # <<>> /\ current_scene.kind = "Gameplay"
    /\ last'.op \in {"press", "update"}
    /\ Len(scenes') = Len(scenes)

\* C29: the hit window of a session is 160 ms on easy, 90 ms on hard and 120 ms
\* on any other difficulty, its scroll speed is the base speed times 0.9, 1.1
\* and 1.0; both are set when the session starts, and no lane key and no update
\* changes them.
C29_WindowAndSpeedByDifficulty ==
    /\ [](\A p \in 1 .. Len(scenes) :
            GameplayAt(p) =>
                /\ scenes[p].difficulty = "easy" => scenes[p].hit_window = 160
                /\ scenes[p].difficulty = "hard" => scenes[p].hit_window = 90
                /\ scenes[p].difficulty \notin {"easy", "hard"} => scenes[p].hit_window = 120
                /\ scenes[p].scroll_speed =
                      (BaseSpeed(scenes[p].chart) * SpeedTenths(scenes[p].difficulty)) \div 10)
    /\ [][SessionStep =>
            /\ next_scene.hit_window = current_scene.hit_window
            /\ next_scene.scroll_speed = current_scene.scroll_speed]_vars

\* C29 witness: a session on hard, some frames in, has just hit a note with its
\* 90 ms window and the scroll speed of 0.85 * 1.1.
C29_Witness ==
    /\ scenes # <<>> /\ current_scene.kind = "Gameplay"
    /\ current_scene.difficulty = "hard"
    /\ current_scene.hit_window = 90 /\ current_scene.scroll_speed = 9350
    /\ current_scene.time_ms > 0
    /\ last.op = "press" /\ last.note # 0

\* the chart file is valid JSON but malformed as a chart: its top level is no
\* object, or a time, lane, sustain, lanes or bpm in it is no number
Malformed(file) ==
    /\ file.found
    /\ \/ "array" \in DOMAIN file
       \/ LET data == file.data
              head == IF "song" \in DOMAIN data THEN data.song ELSE data
              sections == IF "song" \in DOMAIN data THEN Get(data.song, "notes", <<>>) ELSE <<>>
              notes == IF "song" \in DOMAIN data THEN <<>> ELSE Get(data, "notes", <<>>)
          IN \/ Get(head, "lanes", 0) = NotANumber
             \/ Get(head, "bpm", 0) = NotANumber
             \/ \E i \in 1 .. Len(notes) :
                   \E key \in DOMAIN notes[i] : notes[i][key] = NotANumber
             \/ \E s \in 1 .. Len(sections) :
                   \E e \in 1 .. Len(Get(sections[s], "sectionNotes", <<>>)) :
                       \E k \in 1 .. Len(sections[s].sectionNotes[e]) :
                           sections[s].sectionNotes[e][k] = NotANumber

\* C21 (as claimed): when the chart file of the song is malformed, Return in
\* FreeplayScene still starts the session: no error leaves load_chart or
\* on_enter, the host keeps running, and the session plays the empty default chart.
C21_MalformedChartStartsDefault ==
    [][FreeplayPlayFile /\ Malformed(disk) =>
          /\ host' = "running"
          /\ next_scene.kind = "Gameplay"
          /\ next_scene.chart.notes = <<>>]_vars

\* the chart as the parser of the file's shape returns it, before any merge
Parsed(file) ==
    IF "song" \in DOMAIN FileData(file) THEN parse_psych_chart(FileData(file))
    ELSE parse_simple_chart(FileData(file))

\* C22 (as claimed): in a chart just loaded, from a file of either shape, each
\* of title, artist and bpm is the parsed value when that is non-empty
\* (non-zero for bpm) and the value of the song's metadata record when it is
\* empty; a non-empty parsed value is never overwritten.
C22_MetadataFillsEmptyFields ==
    last.op = "load" =>
        LET parsed == Parsed(disk)
            meta == load_song_meta(disk, SongId)
        IN /\ editor.chart.title = IF parsed.title # "" THEN parsed.title ELSE meta.title
           /\ editor.chart.artist = IF parsed.artist # "" THEN parsed.artist ELSE meta.artist
           /\ editor.chart.bpm = IF parsed.bpm # 0 THEN parsed.bpm ELSE meta.bpm

\* the notes the step consumes
ConsumedByStep ==
    {i \in 1 .. Len(current_scene.chart.notes) :
        current_scene.chart.notes[i].time # Consumed /\ next_scene.chart.notes[i].time = Consumed}

\* C23: a press that hits a note with sustain d > 0 at simulation time t opens
\* the sustain of that lane with start t and end t + d and leaves the other
\* lanes alone; a press that hits a note with sustain 0 leaves the sustain
\* start and end of every lane as they were.
C23_HitOpensSustainFromHitTime ==
    [][\A lane_index \in LANE_KEYS :
          GameplayLaneKey(lane_index) =>
              \A i \in ConsumedByStep :
                  LET d == current_scene.chart.notes[i].sustain
                      t == current_scene.time_ms
                  IN IF d > 0
                     THEN /\ next_scene.sustain_start = [current_scene.sustain_start EXCEPT ![lane_index] = t]
                          /\ next_scene.sustain_end = [current_scene.sustain_end EXCEPT ![lane_index] = t + d]
                     ELSE /\ next_scene.sustain_start = current_scene.sustain_start
                          /\ next_scene.sustain_end = current_scene.sustain_end]_vars

\* C23 witness: the sustain note due at 300 ms (sustain 400) was hit early, at
\* 200 ms, which opened [200, 600] on lane 1; at 400 ms, inside that sustain,
\* the plain note of the same lane has just been hit and the sustain is as it was.
C23_Witness ==
    /\ scenes # <<>> /\ current_scene.kind = "Gameplay"
    /\ disk = HoldFile
    /\ last.op = "press" /\ last.lane = 1 /\ last.note = 2
    /\ current_scene.time_ms = 400
    /\ current_scene.hits = 2
    /\ current_scene.sustain_start[1] = 200 /\ current_scene.sustain_end[1] = 600

\* the session after the updates of the tick lengths dts, the keys of the lanes in held down throughout
RECURSIVE AfterTicks(_, _, _)
AfterTicks(g, dts, held) ==
    IF dts = <<>> THEN g
    ELSE AfterTicks(Advance(g, dts[1], held, settings.hp_loss_mult), Tail(dts), held)

\* runs of one to three ticks, short and long
TickRuns ==
    LET D == {40, 200, 1000} IN
    {<<a>> : a \in D} \cup {<<a, b>> : a \in D, b \in D} \cup {<<a, b, c>> : a \in D, b \in D, c \in D}

EarlyPending(g) ==
    {i \in 1 .. Len(g.chart.notes) : g.chart.notes[i].time < 0 /\ g.chart.notes[i].time # Consumed}

\* C25 (as claimed): a note whose time in the chart file is below 0 is judged
\* as a miss by the first update of the session: that update counts at least
\* one miss, marks the note judged and leaves combo at 0.
C25_EarlyNoteMissedOnFirstUpdate ==
    [][(/\ scenes # <<>> /\ current_scene.kind = "Gameplay"
        /\ ~current_scene.play_started
        /\ EarlyPending(current_scene) # {}
        /\ last'.op = "update" /\ ~last'.finished)
       => /\ last'.swept >= 1
          /\ next_scene.combo = 0
          /\ \A i \in EarlyPending(current_scene) :
                next_scene.judged[i] = 1 /\ next_scene.chart.notes[i].time = Consumed]_vars

\* C26: a press of a lane key with no pending note of that lane inside the
\* hit window consumes no note; with ghost tapping allowed (the default) it
\* leaves hits, misses, combo, health and the sustain state unchanged as well.
C26_EmptyPressChangesNothing ==
    [][\A lane_index \in LANE_KEYS :
          (GameplayLaneKey(lane_index) /\ InWindow(current_scene, lane_index) = {}) =>
              /\ next_scene.chart = current_scene.chart
              /\ next_scene.judged = current_scene.judged
              /\ settings.ghost_tap => Session(next_scene) = Session(current_scene)]_vars

\* C26 witness: with ghost tapping allowed, a lane key has just been pressed
\* while a note of that lane was pending but not yet inside the window, after
\* an earlier hit had raised hits and combo; nothing was taken.
C26_Witness ==
    /\ scenes # <<>> /\ current_scene.kind = "Gameplay"
    /\ settings.ghost_tap
    /\ last.op = "press" /\ last.note = 0
    /\ current_scene.hits = 1 /\ current_scene.combo = 1 /\ current_scene.misses = 0
    /\ \E i \in 1 .. Len(current_scene.chart.notes) :
          /\ current_scene.chart.notes[i].lane = last.lane
          /\ current_scene.chart.notes[i].time > current_scene.time_ms + current_scene.hit_window

\* C27 (as claimed): the key of a lane index that is not below the lane count
\* of the chart (the keys of lanes 2 and 3 on a 2-lane chart) is rejected
\* before the judgment logic: the press changes none of hits, misses, combo
\* and health, whatever the ghost-tap setting.
C27_KeyBeyondLanesRejected ==
    [][\A lane_index \in LANE_KEYS :
          (GameplayLaneKey(lane_index) /\ lane_index >= current_scene.chart.lanes) =>
              /\ next_scene.hits = current_scene.hits
              /\ next_scene.misses = current_scene.misses
              /\ next_scene.combo = current_scene.combo
              /\ next_scene.health = current_scene.health]_vars

\* notes i < j of the chart as loaded that have the same time and the same lane
Twins(g, i, j) ==
    /\ i \in 1 .. Len(Loaded(g)) /\ j \in 1 .. Len(Loaded(g)) /\ i < j
    /\ Loaded(g)[i].time = Loaded(g)[j].time
    /\ Loaded(g)[i].lane = Loaded(g)[j].lane

\* note i of the session has not been consumed
Pending(g, i) == g.chart.notes[i].time = Loaded(g)[i].time

\* C28: two notes with the same time and lane are judged independently.  A
\* press of their lane inside the window with both pending consumes exactly
\* one of them (hits + 1) and leaves the other pending; a press with one of
\* them left pending consumes that one; an update that finds both pending and
\* past the window sweeps both, which adds 2 to misses.
C28_TwinNotesJudgedOneByOne ==
    [][Dispatch("Gameplay") =>
          \A i, j \in 1 .. Len(Loaded(current_scene)) :
          Twins(current_scene, i, j) =>
              LET g == current_scene
                  lane_index == Loaded(g)[i].lane
              IN /\ (GameplayLaneKey(lane_index) /\ InWindow(g, lane_index) = {i, j}) =>
                        /\ Cardinality(ConsumedByStep) = 1
                        /\ ConsumedByStep \subseteq {i, j}
                        /\ next_scene.hits = g.hits + 1
                        /\ \E k \in {i, j} : Pending(next_scene, k)
                 /\ \A k \in {i, j} :
                        (GameplayLaneKey(lane_index) /\ InWindow(g, lane_index) = {k}) =>
                            /\ ConsumedByStep = {k}
                            /\ next_scene.hits = g.hits + 1
                 /\ (/\ last'.op = "update" /\ ~last'.finished
                     /\ Pending(g, i) /\ Pending(g, j)
                     /\ Loaded(g)[i].time < last'.time_ms - g.hit_window) =>
                        /\ {i, j} \subseteq ConsumedByStep
                        /\ next_scene.misses = g.misses + Cardinality(ConsumedByStep)
                        /\ next_scene.misses >= g.misses + 2
                        /\ next_scene.judged[i] = 1 /\ next_scene.judged[j] = 1]_vars

\* C28 witness: both notes of a twin pair were taken by two presses of their
\* lane at the same simulation time, the second press having just taken the
\* second note; no miss was counted.
C28_Witness ==
    /\ Dispatch("Gameplay")
    /\ disk = TwinFile
    /\ Twins(current_scene, 1, 2)
    /\ last.op = "press" /\ last.note = 2
    /\ current_scene.hits = 2 /\ current_scene.misses = 0
    /\ current_scene.judged = <<1, 1>>
    /\ current_scene.time_ms = Loaded(current_scene)[1].time

C31_HealthOnlyBySweepAndSustain ==
    [][(/\ SessionStep
        /\ last'.op = "update"
        /\ last'.swept = 0
        /\ \A l \in LANE_KEYS : current_scene.sustain_end[l] <= next_scene.time_ms)
       => next_scene.health = current_scene.health]_vars

\* the judgment state claim C32 compares
Judgment(g) ==
    <<g.misses, g.combo, g.health,
      {i \in 1 .. Len(g.chart.notes) : g.chart.notes[i].time = Consumed}>>

\* the elapsed time T cut into ticks of dt each
EvenTicks(T, dt) == [i \in 1 .. (T \div dt) |-> dt]

\* the tick lengths that cut T into at most ten equal ticks
SplitTicks(T) == {dt \in {40, 200, 1000} : T % dt = 0 /\ T \div dt <= 10}

\* C32 (as claimed): from the start of a session and with no key pressed and
\* no key down, the misses, combo, health and set of consumed notes after a
\* total elapsed time T are the same whether T passes in ticks of 40, 200 or
\* 1000 ms (at most ten ticks).
C32_TickSplitIndependent ==
    (Dispatch("Gameplay") /\ last = NoOp) =>
        \A T \in {200, 1000, 2000} : \A a \in SplitTicks(T) : \A b \in SplitTicks(T) :
            Judgment(AfterTicks(current_scene, EvenTicks(T, a), {}))
                = Judgment(AfterTicks(current_scene, EvenTicks(T, b), {}))

\* the step is Return on "Exit to Menu" in PauseScene
ExitToMenuStep == PauseActivate /\ PauseItems[current_scene.selected + 1] = "Exit to Menu"

\* C33 (as claimed): "Exit to Menu" stops the audio and takes the pause scene
\* and the paused gameplay scene off the stack, and the scene on top afterwards
\* is the FreeplayScene or StoryScene that launched gameplay, never a
\* GameplayScene, Story Mode progression included.
C33_ExitToMenuReturnsToLauncher ==
    [][ExitToMenuStep =>
          /\ music' = "idle"
          /\ Len(scenes') = Len(scenes) - 2
          /\ \A p \in 1 .. Len(scenes') - 1 : scenes'[p] = scenes[p]
          /\ next_scene.kind \in {"Freeplay", "Story"}]_vars

\* the step makes a gameplay scene the top scene, by a push or by the pop of
\* the scene above it: Game calls its on_enter
EnterGameplayStep ==
    /\ Len(scenes') # Len(scenes)
    /\ scenes' # <<>>
    /\ next_scene.kind = "Gameplay"

\* the judgment state of a session that has not begun
FreshSession(g) ==
    /\ g.time_ms = 0 /\ g.hits = 0 /\ g.misses = 0 /\ g.combo = 0
    /\ g.health = HealthStart
    /\ \A l \in LANE_KEYS : g.sustain_start[l] = 0 /\ g.sustain_end[l] = 0
    /\ g.chart.notes = Loaded(g)

\* C34 (as claimed): every on_enter of a gameplay scene leaves it with time 0,
\* hits 0, misses 0, combo 0, health 0.5, no sustain open and every note of
\* the chart pending, whatever the scene held before.
C34_EntryStartsFromInitialState ==
    [][EnterGameplayStep => FreshSession(next_scene)]_vars

\* the notes of the session that have been consumed
ConsumedNotes(g) == {i \in 1 .. Len(g.chart.notes) : g.chart.notes[i].time = Consumed}

\* C35 (as claimed): whenever ghost tapping is allowed, hits + misses of a
\* session is the number of its consumed notes, each of which was judged
\* exactly once and every pending one never, so it is at most the number of
\* notes in the chart.
C35_CountersMatchJudgedNotes ==
    \A p \in 1 .. Len(scenes) :
        GameplayAt(p) /\ settings.ghost_tap =>
            /\ scenes[p].hits + scenes[p].misses = Cardinality(ConsumedNotes(scenes[p]))
            /\ \A i \in 1 .. Len(scenes[p].chart.notes) :
                  scenes[p].judged[i] = IF i \in ConsumedNotes(scenes[p]) THEN 1 ELSE 0
            /\ scenes[p].hits + scenes[p].misses <= Len(Loaded(scenes[p]))

\* what hits + misses of a session counts beyond its consumed notes
Surplus(g) == g.hits + g.misses - Cardinality(ConsumedNotes(g))

\* C35 (amended): every consumed note of a session was judged exactly once and
\* every pending one never; a session is entered with hits + misses equal to
\* the number of its consumed notes (both 0), and the only step that moves
\* hits + misses away from that number is a key press that meets no note while
\* ghost tapping is off, which adds one miss.  So hits + misses is the number
\* of judged notes, and at most the number of notes in the chart, as long as
\* ghost tapping was allowed at every key press since the session was entered.
C35_SurplusOnlyFromPenalisedPresses ==
    /\ [](\A p \in 1 .. Len(scenes) :
            GameplayAt(p) =>
                /\ \A i \in 1 .. Len(scenes[p].chart.notes) :
                      scenes[p].judged[i] = IF i \in ConsumedNotes(scenes[p]) THEN 1 ELSE 0
                /\ Surplus(scenes[p]) >= 0
                /\ Surplus(scenes[p]) = 0 => scenes[p].hits + scenes[p].misses <= Len(Loaded(scenes[p])))
    /\ [][EnterGameplayStep => Surplus(next_scene) = 0]_vars
    /\ [][\A p \in 1 .. Len(scenes) :
            (/\ GameplayAt(p) /\ p <= Len(scenes') /\ scenes'[p].kind = "Gameplay"
             /\ ~(EnterGameplayStep /\ p = Len(scenes'))
             /\ Surplus(scenes'[p]) # Surplus(scenes[p]))
            => /\ p = Len(scenes)
               /\ ~settings.ghost_tap
               /\ last'.op = "press" /\ last'.note = 0
               /\ Surplus(scenes'[p]) = Surplus(scenes[p]) + 1]_vars

\* C35 witness: ghost tapping is allowed, the session has judged its note as
\* a hit, and the key press after it met no note and was not counted.
C35_Witness ==
    /\ Dispatch("Gameplay") /\ settings.ghost_tap
    /\ current_scene.hits >= 1
    /\ Surplus(current_scene) = 0
    /\ last.op = "press" /\ last.note = 0

\* C36: in every state of the host the scene stack is not empty and its bottom
\* scene is the MainMenuScene that Game.__init__ pushed, the only one there is;
\* no step takes it off or puts another scene under it.
C36_MainMenuStaysAtBottom ==
    /\ [](/\ scenes # <<>>
          /\ scenes[1].kind = "MainMenu"
          /\ \A p \in 2 .. Len(scenes) : scenes[p].kind # "MainMenu")
    /\ [][Len(scenes') >= 1 /\ scenes'[1].kind = scenes[1].kind]_vars

\* C36 witness: a freeplay session has run to its end and its finish branch
\* has popped it, with the main menu still below FreeplayScene.
C36_Witness ==
    /\ last.op = "update" /\ last.finished
    /\ Len(scenes) = 2 /\ current_scene.kind = "Freeplay"
    /\ scenes[1].kind = "MainMenu"

\* the identities of the scene objects of the stack API runs
SceneOids == {0} \cup {scene.oid : scene \in StackObjects}

\* the calls of the log made on the scene object oid, in order
CallsOf(calls, oid) == SelectSeq(calls, LAMBDA c : c.oid = oid)

\* oid is the top scene of the stack
TopIs(stack, oid) == stack # <<>> /\ stack[Len(stack)].oid = oid

\* oid is on the stack
OnStack(stack, oid) == \E p \in 1 .. Len(stack) : stack[p].oid = oid

\* C37: the first push enters the scene it pushes, and every push, pop and
\* replace after it continues the alternation of on_enter and on_exit on every
\* scene object: the calls a scene receives alternate, starting with on_exit if
\* it was the top scene (one more on_enter than on_exit so far) and with
\* on_enter otherwise (equally many so far); after the operation the top scene
\* is again one on_enter ahead and every other scene, on the stack or removed
\* from it, has equally many of both; and the last call on a scene the
\* operation removed is on_exit.  The second pop of a double pop is one of
\* these operations.
C37_LifecycleCallsAlternate ==
    /\ \A scene \in StackObjects :
          Game_push_scene(Traced(<<>>), scene).calls = <<Call("on_enter", scene)>>
    /\ last.op = "stack" =>
          \A oid \in SceneOids :
              LET mine == CallsOf(last.calls, oid)
                  wasTop == TopIs(last.before, oid)
                  isTop == TopIs(scenes, oid)
              IN /\ \A k \in 1 .. Len(mine) :
                        mine[k].method = IF (k % 2 = 1) = wasTop THEN "on_exit" ELSE "on_enter"
                 /\ CallsOn(last.calls, "on_enter", oid) - CallsOn(last.calls, "on_exit", oid)
                        = (IF isTop THEN 1 ELSE 0) - (IF wasTop THEN 1 ELSE 0)
                 /\ ~wasTop /\ ~isTop => mine = <<>>
                 /\ OnStack(last.before, oid) /\ ~OnStack(scenes, oid) =>
                        mine # <<>> /\ mine[Len(mine)].method = "on_exit"

\* C37 witness: two pops in a row, as "Exit to Menu" makes them, have taken a
\* stack of three scenes down to its bottom scene.
C37_Witness ==
    /\ LastStackOp("pop", 2)
    /\ last.prev # NoOp /\ last.prev.name = "pop" /\ Len(last.prev.before) = 3
    /\ Len(scenes) = 1
    /\ CallsOn(last.calls, "on_enter", scenes[1].oid) = 1

\* the values next to v in the value list, going round at both ends
Adjacent(values, v) ==
    {values[((k - 2) % Len(values)) + 1] : k \in {i \in 1 .. Len(values) : values[i] = v}}
        \cup {values[(k % Len(values)) + 1] : k \in {i \in 1 .. Len(values) : values[i] = v}}

\* C38 (as claimed): Left / Right on a non-volume option of SettingsScene never
\* raises and moves the setting to a value of the option's list that is
\* cyclically adjacent to the value it held, the defaults of _load_settings
\* included.
C38_SettingsChangeNeverRaises ==
    [][\A d \in {-1, 1} :
          SettingsChange(d) =>
              LET opt == SettingsOptions[current_scene.selected + 1]
                  before == CurrentValue(opt.name)
                  after == IF opt.name = "Note Bar Position" THEN settings'.note_bar_pos
                           ELSE IF opt.name = "Note Skin" THEN settings'.note_skin
                           ELSE IF settings'.ghost_tap THEN "On" ELSE "Off"
              IN /\ host' = "running"
                 /\ after \in Adjacent(opt.values, before)]_vars

====
